---- MODULE Spec2Model ----
(***************************************************************************)
(* Model of the agent execution core of Volteyr_internal_bot:              *)
(*   - the history sanitizer      (backend/app/agent/graph.py)             *)
(*   - the tool dispatcher        (backend/app/agent/graph.py)             *)
(*   - the router should_continue (backend/app/agent/graph.py)             *)
(*   - the Airtable sub-workflow  (backend/app/agent/subgraphs/airtable.py)*)
(*   - the checkpointed main graph driven by the chat and resume endpoints *)
(*     (backend/app/agent/graph.py, backend/app/api/routers/chat.py)       *)
(* Each component has its own specification over the shared variables; the *)
(* variables of the other components stay at their idle values.            *)
(***************************************************************************)
EXTENDS Integers, Sequences, FiniteSets, TLC

VARIABLES
  \* sanitizer harness
  san_messages, san_result, san_again, san_pc,
  \* dispatcher harness
  d_name, d_args_ok, d_world, d_out, d_pc,
  \* router harness
  rt_messages, rt_route, rt_pc, rt_again,
  \* Airtable sub-workflow
  sub_messages, retries_used, sub_pc, sub_llm_calls, sub_tool_runs,
  sub_all_tool, sub_all_error, sub_out,
  _pool, _compiled_graph, pools_opened, gg,
  owner, request,
  \* main graph: checkpoint store, requests, side effects
  checkpoints, req, next_id, started, sent, llm_input,
  \* main graph: what the callers and the tools saw
  reply, invoked, nsteps, nckpt, crashes, delegated, call_cap

sanVars   == <<san_messages, san_result, san_again, san_pc>>
toolVars  == <<d_name, d_args_ok, d_world, d_out, d_pc>>
routeVars == <<rt_messages, rt_route, rt_pc, rt_again>>
subVars   == <<sub_messages, retries_used, sub_pc, sub_llm_calls, sub_tool_runs,
               sub_all_tool, sub_all_error, sub_out>>
graphVars == <<checkpoints, req, next_id, started, sent, llm_input,
               reply, invoked, nsteps, nckpt, crashes, delegated, call_cap>>
poolVars  == <<_pool, _compiled_graph, pools_opened, gg>>
apiVars   == <<owner, request>>
vars      == <<sanVars, toolVars, routeVars, subVars, graphVars, poolVars, apiVars>>

(***************************************************************************)
(* Text.  A content is a sequence of fragments (literals of the source and *)
(* the values formatted into them); Text gives its characters, so that     *)
(* prefix and substring tests are computed, not assumed.                   *)
(***************************************************************************)
Chars(tok) ==
  CASE tok = "" -> <<>>
    [] tok = "Error: the previous action was interrupted. Please try again or rephrase your request." ->
         <<"E", "r", "r", "o", "r", ":", " ", "t", "h", "e", " ", "p", "r", "e", "v", "i", "o", "u", "s", " ", "a", "c", "t", "i", "o", "n", " ", "w", "a", "s", " ", "i", "n", "t", "e", "r", "r", "u", "p", "t", "e", "d", ".", " ", "P", "l", "e", "a", "s", "e", " ", "t", "r", "y", " ", "a", "g", "a", "i", "n", " ", "o", "r", " ", "r", "e", "p", "h", "r", "a", "s", "e", " ", "y", "o", "u", "r", " ", "r", "e", "q", "u", "e", "s", "t", ".">>
    [] tok = "Unknown tool: " ->
         <<"U", "n", "k", "n", "o", "w", "n", " ", "t", "o", "o", "l", ":", " ">>
    [] tok = "Error running " ->
         <<"E", "r", "r", "o", "r", " ", "r", "u", "n", "n", "i", "n", "g", " ">>
    [] tok = ": " ->
         <<":", " ">>
    [] tok = "Error executing tool: " ->
         <<"E", "r", "r", "o", "r", " ", "e", "x", "e", "c", "u", "t", "i", "n", "g", " ", "t", "o", "o", "l", ":", " ">>
    [] tok = "No records found." ->
         <<"N", "o", " ", "r", "e", "c", "o", "r", "d", "s", " ", "f", "o", "u", "n", "d", ".">>
    [] tok = "Skipped (not email): " ->
         <<"S", "k", "i", "p", "p", "e", "d", " ", "(", "n", "o", "t", " ", "e", "m", "a", "i", "l", ")", ":", " ">>
    [] tok = "Email sent successfully to " ->
         <<"E", "m", "a", "i", "l", " ", "s", "e", "n", "t", " ", "s", "u", "c", "c", "e", "s", "s", "f", "u", "l", "l", "y", " ", "t", "o", " ">>
    [] tok = "Error: Knowledge base not available (check OPENAI_API_KEY and database configuration)." ->
         <<"E", "r", "r", "o", "r", ":", " ", "K", "n", "o", "w", "l", "e", "d", "g", "e", " ", "b", "a", "s", "e", " ", "n", "o", "t", " ", "a", "v", "a", "i", "l", "a", "b", "l", "e", " ", "(", "c", "h", "e", "c", "k", " ", "O", "P", "E", "N", "A", "I", "_", "A", "P", "I", "_", "K", "E", "Y", " ", "a", "n", "d", " ", "d", "a", "t", "a", "b", "a", "s", "e", " ", "c", "o", "n", "f", "i", "g", "u", "r", "a", "t", "i", "o", "n", ")", ".">>
    [] tok = "Aucun document pertinent trouve dans la base de connaissances." ->
         <<"A", "u", "c", "u", "n", " ", "d", "o", "c", "u", "m", "e", "n", "t", " ", "p", "e", "r", "t", "i", "n", "e", "n", "t", " ", "t", "r", "o", "u", "v", "e", " ", "d", "a", "n", "s", " ", "l", "a", " ", "b", "a", "s", "e", " ", "d", "e", " ", "c", "o", "n", "n", "a", "i", "s", "s", "a", "n", "c", "e", "s", ".">>
    [] tok = "Error searching knowledge base: " ->
         <<"E", "r", "r", "o", "r", " ", "s", "e", "a", "r", "c", "h", "i", "n", "g", " ", "k", "n", "o", "w", "l", "e", "d", "g", "e", " ", "b", "a", "s", "e", ":", " ">>
    [] tok = "Error: table_name must be one of: " ->
         <<"E", "r", "r", "o", "r", ":", " ", "t", "a", "b", "l", "e", "_", "n", "a", "m", "e", " ", "m", "u", "s", "t", " ", "b", "e", " ", "o", "n", "e", " ", "o", "f", ":", " ">>
    [] tok = "Error searching table: " ->
         <<"E", "r", "r", "o", "r", " ", "s", "e", "a", "r", "c", "h", "i", "n", "g", " ", "t", "a", "b", "l", "e", ":", " ">>
    [] tok = "Error: " ->
         <<"E", "r", "r", "o", "r", ":", " ">>
    [] tok = "send_email" ->
         <<"s", "e", "n", "d", "_", "e", "m", "a", "i", "l">>
    [] tok = "lookup_policy" ->
         <<"l", "o", "o", "k", "u", "p", "_", "p", "o", "l", "i", "c", "y">>
    [] tok = "search_airtable" ->
         <<"s", "e", "a", "r", "c", "h", "_", "a", "i", "r", "t", "a", "b", "l", "e">>
    [] tok = "foo" ->
         <<"f", "o", "o">>
    [] tok = "send_mail" ->
         <<"s", "e", "n", "d", "_", "m", "a", "i", "l">>
    [] tok = "timeout" ->
         <<"t", "i", "m", "e", "o", "u", "t">>
    [] tok = "field required" ->
         <<"f", "i", "e", "l", "d", " ", "r", "e", "q", "u", "i", "r", "e", "d">>
    [] tok = "bob@test.com" ->
         <<"b", "o", "b", "@", "t", "e", "s", "t", ".", "c", "o", "m">>
    [] tok = "Clients" ->
         <<"C", "l", "i", "e", "n", "t", "s">>
    [] tok = "| Nom | Statut |" ->
         <<"|", " ", "N", "o", "m", " ", "|", " ", "S", "t", "a", "t", "u", "t", " ", "|">>
    [] tok = "Client ErrorCorp" ->
         <<"C", "l", "i", "e", "n", "t", " ", "E", "r", "r", "o", "r", "C", "o", "r", "p">>
    [] tok = "Bonjour" ->
         <<"B", "o", "n", "j", "o", "u", "r">>
    [] tok = "Envoie un email" ->
         <<"E", "n", "v", "o", "i", "e", " ", "u", "n", " ", "e", "m", "a", "i", "l">>
    [] tok = "Query Airtable" ->
         <<"Q", "u", "e", "r", "y", " ", "A", "i", "r", "t", "a", "b", "l", "e">>

LowerChar(c) ==
  CASE c = "A" -> "a"
    [] c = "B" -> "b"
    [] c = "C" -> "c"
    [] c = "D" -> "d"
    [] c = "E" -> "e"
    [] c = "F" -> "f"
    [] c = "G" -> "g"
    [] c = "H" -> "h"
    [] c = "I" -> "i"
    [] c = "J" -> "j"
    [] c = "K" -> "k"
    [] c = "L" -> "l"
    [] c = "M" -> "m"
    [] c = "N" -> "n"
    [] c = "O" -> "o"
    [] c = "P" -> "p"
    [] c = "Q" -> "q"
    [] c = "R" -> "r"
    [] c = "S" -> "s"
    [] c = "T" -> "t"
    [] c = "U" -> "u"
    [] c = "V" -> "v"
    [] c = "W" -> "w"
    [] c = "X" -> "x"
    [] c = "Y" -> "y"
    [] c = "Z" -> "z"
    [] OTHER -> c


RECURSIVE Text(_)
Text(content) ==
  IF content = <<>> THEN <<>> ELSE Chars(Head(content)) \o Text(Tail(content))

Lower(s) == [i \in 1..Len(s) |-> LowerChar(s[i])]

StartsWith(s, p) == Len(s) >= Len(p) /\ SubSeq(s, 1, Len(p)) = p

Contains(s, p) ==
  \E i \in 1..(Len(s) + 1) : i + Len(p) - 1 <= Len(s) /\ SubSeq(s, i, i + Len(p) - 1) = p

\* "Error" in s or "error" in s.lower()
is_error(content) ==
  \/ Contains(Text(content), <<"E", "r", "r", "o", "r">>)
  \/ Contains(Lower(Text(content)), <<"e", "r", "r", "o", "r">>)

(***************************************************************************)
(* Messages.  type is the LangChain class (human / ai / tool); an id of 0  *)
(* stands for a missing or empty tool call id, a name of "" for a missing  *)
(* or empty tool name.                                                     *)
(***************************************************************************)
HumanMessage(content) ==
  [type |-> "human", content |-> content, tool_calls |-> <<>>, tool_call_id |-> 0]

AIMessage(content, tool_calls) ==
  [type |-> "ai", content |-> content, tool_calls |-> tool_calls, tool_call_id |-> 0]

ToolMessage(content, tool_call_id) ==
  [type |-> "tool", content |-> content, tool_calls |-> <<>>, tool_call_id |-> tool_call_id]

ToolCall(id, name) == [id |-> id, name |-> name]

\* hasattr(msg, "tool_calls") and msg.tool_calls
HasToolCalls(msg) == msg.type = "ai" /\ msg.tool_calls # <<>>

isToolMessage(msg) == msg.type = "tool"

_TOOL_INTERRUPTED_PLACEHOLDER ==
  <<"Error: the previous action was interrupted. Please try again or rephrase your request.">>

(***************************************************************************)
(* _sanitize_messages_for_llm.  The placeholders are appended in the       *)
(* iteration order of a Python set, which the source does not fix: order   *)
(* chooses it.                                                             *)
(***************************************************************************)
SetOrders == {"asc", "desc"}

RECURSIVE SetToSeq(_, _)
SetToSeq(S, order) ==
  IF S = {} THEN <<>>
  ELSE LET x == IF order = "asc"
                THEN CHOOSE y \in S : \A z \in S : y <= z
                ELSE CHOOSE y \in S : \A z \in S : y >= z
       IN <<x>> \o SetToSeq(S \ {x}, order)

\* ids_expected = {tc.get("id") for tc in msg.tool_calls if tc.get("id")}
IdsExpected(msg) ==
  {msg.tool_calls[k].id : k \in 1..Len(msg.tool_calls)} \ {0}

\* the index of the first message after i that is no ToolMessage (the inner while)
RECURSIVE ToolBlockEnd(_, _)
ToolBlockEnd(messages, j) ==
  IF j <= Len(messages) /\ isToolMessage(messages[j])
  THEN ToolBlockEnd(messages, j + 1)
  ELSE j

\* ids_seen: the tool_call_ids of the block that are expected
IdsSeen(messages, i, j, ids_expected) ==
  {messages[k].tool_call_id : k \in (i + 1)..(j - 1)} \cap ids_expected

MissingIdsAll(ids_expected, ids_seen) == ids_expected

\* missing = {x for x in (ids_expected - ids_seen) if x}
MissingIds(ids_expected, ids_seen) == (ids_expected \ ids_seen) \ {0}

Placeholders(missing, order) ==
  LET ids == SetToSeq(missing, order)
  IN [k \in 1..Len(ids) |-> ToolMessage(_TOOL_INTERRUPTED_PLACEHOLDER, ids[k])]

RECURSIVE SanitizeFrom(_, _, _)
SanitizeFrom(messages, i, order) ==
  IF i > Len(messages) THEN <<>>
  ELSE LET msg == messages[i] IN
       IF HasToolCalls(msg)
       THEN LET ids_expected == IdsExpected(msg)
                j == ToolBlockEnd(messages, i + 1)
                ids_seen == IdsSeen(messages, i, j, ids_expected)
                missing == MissingIds(ids_expected, ids_seen)
            IN <<msg>> \o SubSeq(messages, i + 1, j - 1)
                       \o Placeholders(missing, order)
                       \o SanitizeFrom(messages, j, order)
       ELSE <<msg>> \o SanitizeFrom(messages, i + 1, order)

sanitize_placeholders_last(messages, order) ==
  LET s == SanitizeFrom(messages, 1, order)
  IN SelectSeq(s, LAMBDA m : m.content # _TOOL_INTERRUPTED_PLACEHOLDER)
       \o SelectSeq(s, LAMBDA m : m.content = _TOOL_INTERRUPTED_PLACEHOLDER)

_sanitize_messages_for_llm(messages, order) == SanitizeFrom(messages, 1, order)

(***************************************************************************)
(* Idle values of each component's variables.                              *)
(***************************************************************************)
SanIdle ==
  san_messages = <<>> /\ san_result = <<>> /\ san_again = <<>> /\ san_pc = "idle"

ToolIdle ==
  d_name = "" /\ d_args_ok = TRUE /\ d_world = "idle" /\ d_out = <<>> /\ d_pc = "idle"

RouteIdle ==
  rt_messages = <<>> /\ rt_route = "none" /\ rt_pc = "idle" /\ rt_again = "none"

SubIdle ==
  /\ sub_messages = <<>> /\ retries_used = 0 /\ sub_pc = "idle" /\ sub_out = <<>>
  /\ sub_llm_calls = 0 /\ sub_tool_runs = 0
  /\ sub_all_tool = TRUE /\ sub_all_error = TRUE

GraphIdle ==
  /\ checkpoints = <<>> /\ req = <<>> /\ next_id = 0 /\ started = 0
  /\ sent = <<>> /\ llm_input = <<>>
  /\ reply = "none" /\ invoked = <<>> /\ nsteps = 0 /\ nckpt = 0 /\ crashes = 0
  /\ delegated = <<>> /\ call_cap = 0

\* the requests that call get_graph
Callers == {"c1", "c2", "c3"}

\* _pool: AsyncConnectionPool | None = None; _compiled_graph = None; no
\* request has called get_graph
PoolIdle ==
  /\ _pool = "None" /\ _compiled_graph = "None" /\ pools_opened = {}
  /\ gg = [c \in Callers |-> [pc |-> "idle", checkpointer |-> "None", graph |-> "None"]]

\* no request received yet
NoRequest ==
  [kind |-> "none", user |-> "none", thread |-> "none", has_thread_id |-> FALSE,
   body |-> <<>>, action |-> "none"]

\* the threads table is not consulted, no request is on record
ApiIdle == owner = <<>> /\ request = NoRequest

(***************************************************************************)
(* The sanitizer applied to bounded histories (SpecSan).                   *)
(***************************************************************************)
MaxHistLen == 3

SanAlphabet ==
  { HumanMessage(<<"Bonjour">>),
    AIMessage(<<"Bonjour">>, <<>>),
    AIMessage(<<>>, <<ToolCall(1, "lookup_policy")>>),
    AIMessage(<<>>, <<ToolCall(1, "lookup_policy"), ToolCall(2, "send_email")>>),
    AIMessage(<<>>, <<ToolCall(0, "lookup_policy")>>),
    ToolMessage(<<"Clients">>, 1),
    ToolMessage(<<"Clients">>, 2),
    ToolMessage(<<"Clients">>, 0) }

SanHistories == UNION {[1..n -> SanAlphabet] : n \in 0..MaxHistLen}

InitSan ==
  /\ san_messages \in SanHistories
  /\ san_result = <<>> /\ san_again = <<>> /\ san_pc = "start"
  /\ ToolIdle /\ RouteIdle /\ SubIdle /\ GraphIdle /\ PoolIdle /\ ApiIdle

SanitizeOnce ==
  /\ san_pc = "start"
  /\ \E order \in SetOrders :
       san_result' = _sanitize_messages_for_llm(san_messages, order)
  /\ san_pc' = "once"
  /\ UNCHANGED <<san_messages, san_again, toolVars, routeVars, subVars, graphVars, poolVars, apiVars>>

SanitizeTwice ==
  /\ san_pc = "once"
  /\ \E order \in SetOrders :
       san_again' = _sanitize_messages_for_llm(san_result, order)
  /\ san_pc' = "twice"
  /\ UNCHANGED <<san_messages, san_result, toolVars, routeVars, subVars, graphVars, poolVars, apiVars>>

NextSan == SanitizeOnce \/ SanitizeTwice

SpecSan == InitSan /\ [][NextSan]_vars

(***************************************************************************)
(* Tools and the dispatcher.  A call returns [raised, exc, value]: either  *)
(* an exception text or a content.  world is what the external service     *)
(* does on this call; args_ok is whether the arguments pass the tool's     *)
(* schema (StructuredTool.invoke raises on invalid arguments).             *)
(***************************************************************************)
Return(value) == [raised |-> FALSE, exc |-> "", value |-> value]

Raise(exc) == [raised |-> TRUE, exc |-> exc, value |-> <<>>]

Worlds == {"ok", "empty", "errstr", "unavailable", "raises"}

ToolNames == {"lookup_policy", "send_email", "search_airtable", "foo", "send_mail", ""}

lookup_policy(args_ok, world) ==
  IF ~args_ok THEN Raise("field required")
  ELSE CASE world = "unavailable" ->
              Return(<<"Error: Knowledge base not available (check OPENAI_API_KEY and database configuration).">>)
         [] world = "empty" ->
              Return(<<"Aucun document pertinent trouve dans la base de connaissances.">>)
         [] world = "errstr" ->
              Return(<<"Error searching knowledge base: ", "timeout">>)
         [] world = "raises" -> Raise("timeout")
         [] OTHER -> Return(<<"Clients">>)

send_email(args_ok, world) ==
  IF ~args_ok THEN Raise("field required")
  ELSE Return(<<"Email sent successfully to ", "bob@test.com">>)

\* what airtable_graph.invoke(initial_state) gives back: the sub-workflow's
\* final messages, or an exception
SubgraphResult(world) ==
  LET query == HumanMessage(<<"Query Airtable">>)
      call  == AIMessage(<<>>, <<ToolCall(1, "search_airtable")>>)
  IN CASE world = "raises" -> [raised |-> TRUE, exc |-> "timeout", messages |-> <<>>]
       [] world = "empty" ->
            [raised |-> FALSE, exc |-> "", messages |-> <<query, AIMessage(<<>>, <<>>)>>]
       [] world = "errstr" ->
            [raised |-> FALSE, exc |-> "",
             messages |-> <<query, call,
                            ToolMessage(<<"Error: table_name must be one of: ", "Clients">>, 1)>>]
       [] world = "unavailable" ->
            [raised |-> FALSE, exc |-> "",
             messages |-> <<query, call, ToolMessage(<<"Error searching table: ", "timeout">>, 1)>>]
       [] OTHER ->
            [raised |-> FALSE, exc |-> "",
             messages |-> <<query, call, ToolMessage(<<"| Nom | Statut |">>, 1)>>]

\* a wrapper that hands back the query it was given
_run_airtable_subgraph_sync_query(result) ==
  IF result.raised THEN Return(<<"Error executing tool: ", result.exc>>)
  ELSE IF result.messages = <<>> THEN Return(<<"No records found.">>)
  ELSE Return(result.messages[1].content)

\* never raises: the except clause turns an exception into a string
_run_airtable_subgraph_sync(result) ==
  IF result.raised THEN Return(<<"Error executing tool: ", result.exc>>)
  ELSE IF result.messages = <<>> THEN Return(<<"No records found.">>)
  ELSE LET out == result.messages[Len(result.messages)].content
       IN IF Text(out) = <<>> THEN Return(<<"No records found.">>) ELSE Return(out)

UnknownTool(name) == Return(<<"Unknown tool: ", name>>)

ToolFailure(name, exc) == Return(<<"Error running ", name, ": ", exc>>)

_run_tool(name, args_ok, world) ==
  LET r == IF name = "lookup_policy" THEN lookup_policy(args_ok, world)
           ELSE IF name = "send_email" THEN send_email(args_ok, world)
           ELSE IF name = "search_airtable"
                THEN _run_airtable_subgraph_sync(SubgraphResult(world))
           ELSE UnknownTool(name)
  IN IF r.raised THEN ToolFailure(name, r.exc) ELSE r

(***************************************************************************)
(* The dispatcher applied to every name, argument validity and behaviour   *)
(* of the service (SpecTool).                                              *)
(***************************************************************************)
InitTool ==
  /\ d_name \in ToolNames /\ d_args_ok \in BOOLEAN /\ d_world \in Worlds
  /\ d_out = <<>> /\ d_pc = "start"
  /\ SanIdle /\ RouteIdle /\ SubIdle /\ GraphIdle /\ PoolIdle /\ ApiIdle

Dispatch ==
  /\ d_pc = "start"
  /\ LET r == _run_tool(d_name, d_args_ok, d_world)
     IN /\ d_out' = r.value
        /\ d_pc' = IF r.raised THEN "raised" ELSE "returned"
  /\ UNCHANGED <<d_name, d_args_ok, d_world, sanVars, routeVars, subVars, graphVars, poolVars, apiVars>>

NextTool == Dispatch

SpecTool == InitTool /\ [][NextTool]_vars

KnownTools == {"lookup_policy", "send_email", "search_airtable"}

\* the call failed: an unknown name, arguments the schema rejects, or the
\* service raising
DispatchFailed ==
  \/ d_name \notin KnownTools
  \/ d_name \in {"lookup_policy", "send_email"} /\ ~d_args_ok
  \/ d_name \in {"lookup_policy", "search_airtable"} /\ d_world = "raises"

\* C8: _run_tool never raises, and every failure outcome is returned as a
\* string beginning with "Error:".
DispatcherErrorPrefix ==
  /\ d_pc # "raised"
  /\ (d_pc = "returned" /\ DispatchFailed) =>
        StartsWith(Text(d_out), <<"E", "r", "r", "o", "r", ":">>)

(***************************************************************************)
(* The router should_continue.                                             *)
(***************************************************************************)
MAX_TOOL_MESSAGES == 10

\* tool_count = sum(1 for m in state["messages"] if isinstance(m, ToolMessage))
ToolCount(messages) ==
  Cardinality({k \in 1..Len(messages) : isToolMessage(messages[k])})

RateLimitedNever(tool_count) == FALSE

RateLimitedOffByOne(tool_count) == tool_count > MAX_TOOL_MESSAGES

\* if tool_count >= MAX_TOOL_MESSAGES: return "end"
RateLimited(tool_count) == tool_count >= MAX_TOOL_MESSAGES

\* names = [tc.get("name") for tc in last.tool_calls if tc.get("name")]
CallNames(tool_calls) ==
  LET all == [k \in 1..Len(tool_calls) |-> tool_calls[k].name]
  IN SelectSeq(all, LAMBDA n : n # "")

\* a router without the send_email branch
should_continue_no_gate(messages) ==
  LET last == messages[Len(messages)] IN
  IF ~HasToolCalls(last) THEN "end"
  ELSE IF RateLimited(ToolCount(messages)) THEN "end"
  ELSE LET names == CallNames(last.tool_calls) IN
       IF names # <<>> /\ \A k \in 1..Len(names) : names[k] = "search_airtable"
       THEN "airtable"
       ELSE "tools"

should_continue(messages) ==
  LET last == messages[Len(messages)] IN
  IF ~HasToolCalls(last) THEN "end"
  ELSE IF RateLimited(ToolCount(messages)) THEN "end"
  ELSE LET names == CallNames(last.tool_calls) IN
       IF \E k \in 1..Len(names) : names[k] = "send_email" THEN "tools_email"
       ELSE IF names # <<>> /\ \A k \in 1..Len(names) : names[k] = "search_airtable"
            THEN "airtable"
       ELSE "tools"

(***************************************************************************)
(* The router applied to bounded thread states (SpecRoute): a first turn   *)
(* whose assistant message asked for n lookups, answered by n              *)
(* tool_results, followed by the message the router looks at.              *)
(***************************************************************************)
MaxPriorTools == 11

MaxBatch == 2

RouterNames == {"send_email", "lookup_policy", "search_airtable", ""}

\* the tool call batches of an assistant message: ids 1..n, any names
RouterBatches ==
  UNION {{[k \in 1..n |-> ToolCall(k, f[k])] : f \in [1..n -> RouterNames]} : n \in 1..MaxBatch}

RouterLastMessages ==
  {AIMessage(<<"Bonjour">>, <<>>)} \cup {AIMessage(<<>>, b) : b \in RouterBatches}

PriorTurn(n) ==
  IF n = 0 THEN <<HumanMessage(<<"Envoie un email">>)>>
  ELSE <<HumanMessage(<<"Envoie un email">>),
         AIMessage(<<>>, [k \in 1..n |-> ToolCall(100 + k, "lookup_policy")])>>
       \o [k \in 1..n |-> ToolMessage(<<"Clients">>, 100 + k)]

InitRoute ==
  /\ \E n \in 0..MaxPriorTools, last \in RouterLastMessages :
       rt_messages = PriorTurn(n) \o <<last>>
  /\ rt_route = "none" /\ rt_pc = "start" /\ rt_again = "none"
  /\ SanIdle /\ ToolIdle /\ SubIdle /\ GraphIdle /\ PoolIdle /\ ApiIdle

\* a router that takes the message it looked at off the state
should_continue_call_pop(messages) ==
  [route |-> should_continue(messages),
   messages |-> SubSeq(messages, 1, Len(messages) - 1)]

\* one call of should_continue by the conditional edge: the route it
\* returns and state["messages"] as the call leaves it
should_continue_call(messages) ==
  [route |-> should_continue(messages), messages |-> messages]

Route ==
  /\ rt_pc = "start"
  /\ rt_route' = should_continue_call(rt_messages).route
  /\ rt_messages' = should_continue_call(rt_messages).messages
  /\ rt_pc' = "routed"
  /\ UNCHANGED <<rt_again, sanVars, toolVars, subVars, graphVars, poolVars, apiVars>>

\* a second call on the state the first call left
RouteAgain ==
  /\ rt_pc = "routed"
  /\ rt_again' = should_continue_call(rt_messages).route
  /\ rt_messages' = should_continue_call(rt_messages).messages
  /\ rt_pc' = "twice"
  /\ UNCHANGED <<rt_route, sanVars, toolVars, subVars, graphVars, poolVars, apiVars>>

NextRoute == Route \/ RouteAgain

SpecRoute == InitRoute /\ [][NextRoute]_vars

RouterLast == rt_messages[Len(rt_messages)]

\* C9: once the thread holds at least MAX_TOOL_MESSAGES tool_results the
\* router returns "end" for every last message, pending tool calls or not.
RateLimitEnds ==
  (rt_pc = "routed" /\ ToolCount(rt_messages) >= MAX_TOOL_MESSAGES) => rt_route = "end"

\* the router ended a state at the ceiling whose last message asks for send_email
RateLimitEndsWitness ==
  /\ rt_pc = "routed" /\ ToolCount(rt_messages) = MAX_TOOL_MESSAGES
  /\ HasToolCalls(RouterLast)
  /\ \E k \in 1..Len(RouterLast.tool_calls) : RouterLast.tool_calls[k].name = "send_email"
  /\ rt_route = "end"

\* C10: the router follows the stated decision order: end without tool
\* calls, end at the ceiling, tools_email if any call names send_email,
\* delegate if every call names search_airtable, tools otherwise.
RouterDecisionOrder ==
  rt_pc = "routed" =>
    LET calls == RouterLast.tool_calls IN
    rt_route =
      IF ~HasToolCalls(RouterLast) THEN "end"
      ELSE IF ToolCount(rt_messages) >= MAX_TOOL_MESSAGES THEN "end"
      ELSE IF \E k \in 1..Len(calls) : calls[k].name = "send_email" THEN "tools_email"
      ELSE IF \A k \in 1..Len(calls) : calls[k].name = "search_airtable" THEN "airtable"
      ELSE "tools"

(***************************************************************************)
(* The Airtable sub-workflow (SpecSub): agent -> tools -> agent ... with    *)
(* the retry counter.  sub_llm_calls and sub_tool_runs count the executions *)
(* of the two nodes; sub_all_tool and sub_all_error record whether every   *)
(* LLM response so far asked for the tool and every observation so far was *)
(* an error.                                                               *)
(***************************************************************************)
AIRTABLE_MAX_RETRIES == 3

SubQueries == {<<"Query Airtable">>, <<"Clients">>}

\* what search_airtable (through ToolNode) can answer
SubObservations ==
  { <<"| Nom | Statut |">>,
    <<"No records found.">>,
    <<"Client ErrorCorp">>,
    <<"Error: table_name must be one of: ", "Clients">>,
    <<"Error searching table: ", "timeout">> }

\* an initial_state that keeps the counter of the run before
initial_state_carry(q) ==
  [messages |-> <<HumanMessage(q)>>, retries_used |-> retries_used]

\* initial_state of _run_airtable_subgraph_sync
initial_state(q) == [messages |-> <<HumanMessage(q)>>, retries_used |-> 0]

\* the first airtable_graph.invoke(initial_state) of the process
InitSub ==
  /\ \E q \in SubQueries : sub_messages = <<HumanMessage(q)>>
  /\ retries_used = 0
  /\ sub_pc = "agent"
  /\ sub_llm_calls = 0 /\ sub_tool_runs = 0
  /\ sub_all_tool = TRUE /\ sub_all_error = TRUE
  /\ sub_out = <<>>
  /\ SanIdle /\ ToolIdle /\ RouteIdle /\ GraphIdle /\ PoolIdle /\ ApiIdle

_tools_condition(messages) ==
  LET last == messages[Len(messages)]
  IN IF last.type # "ai" \/ last.tool_calls = <<>> THEN "__end__" ELSE "tools"

\* new_retries = retries + 1 if is_error else retries
new_retries(retries, error) == IF error THEN retries + 1 ELSE retries

\* a route that goes back to the agent while retries are left, error or not
after_tool_route_always(messages, retries) ==
  LET last == messages[Len(messages)]
  IN IF ~isToolMessage(last) THEN "__end__"
     ELSE IF retries < AIRTABLE_MAX_RETRIES THEN "agent"
     ELSE "__end__"

after_tool_route(messages, retries) ==
  LET last == messages[Len(messages)]
  IN IF ~isToolMessage(last) THEN "__end__"
     ELSE IF is_error(last.content) /\ retries < AIRTABLE_MAX_RETRIES THEN "agent"
     ELSE "__end__"

SubNode(route) == IF route = "__end__" THEN "end" ELSE route

\* agent_node followed by the conditional edge _tools_condition
agent_node ==
  /\ sub_pc = "agent"
  /\ \E response \in {AIMessage(<<"Bonjour">>, <<>>),
                      AIMessage(<<>>, <<>>),
                      AIMessage(<<>>, <<ToolCall(sub_llm_calls + 1, "search_airtable")>>)} :
       /\ sub_messages' = Append(sub_messages, response)
       /\ sub_all_tool' = (sub_all_tool /\ HasToolCalls(response))
       /\ sub_pc' = SubNode(_tools_condition(Append(sub_messages, response)))
  /\ sub_llm_calls' = sub_llm_calls + 1
  /\ UNCHANGED <<retries_used, sub_tool_runs, sub_all_error, sub_out,
                 sanVars, toolVars, routeVars, graphVars, poolVars, apiVars>>

\* agent_node when llm.invoke raises: airtable_graph.invoke raises
agent_node_raises ==
  /\ sub_pc = "agent"
  /\ sub_pc' = "raised"
  /\ sub_llm_calls' = sub_llm_calls + 1
  /\ UNCHANGED <<sub_messages, retries_used, sub_tool_runs, sub_all_tool, sub_all_error,
                 sub_out, sanVars, toolVars, routeVars, graphVars, poolVars, apiVars>>

\* tool_node_wrapper followed by the conditional edge after_tool_route
tool_node_wrapper ==
  /\ sub_pc = "tools"
  /\ \E obs \in SubObservations :
       LET last == sub_messages[Len(sub_messages)]
           out == [k \in 1..Len(last.tool_calls) |-> ToolMessage(obs, last.tool_calls[k].id)]
           last_content == out[Len(out)].content
           retries == new_retries(retries_used, is_error(last_content))
       IN /\ sub_messages' = sub_messages \o out
          /\ retries_used' = retries
          /\ sub_all_error' = (sub_all_error /\ is_error(obs))
          /\ sub_pc' = SubNode(after_tool_route(sub_messages \o out, retries))
  /\ sub_tool_runs' = sub_tool_runs + 1
  /\ UNCHANGED <<sub_llm_calls, sub_all_tool, sub_out, sanVars, toolVars, routeVars, graphVars, poolVars, apiVars>>

\* the observation of a sub-workflow that has ended or raised
sub_result ==
  [raised |-> sub_pc = "raised", exc |-> "timeout",
   messages |-> IF sub_pc = "raised" THEN <<>> ELSE sub_messages]

\* _run_airtable_subgraph_sync after airtable_graph.invoke, and
\* content = str(out) in delegate_to_airtable
sub_return ==
  /\ sub_pc \in {"end", "raised"}
  /\ sub_out' = _run_airtable_subgraph_sync(sub_result).value
  /\ sub_pc' = "returned"
  /\ UNCHANGED <<sub_messages, retries_used, sub_llm_calls, sub_tool_runs, sub_all_tool,
                 sub_all_error, sanVars, toolVars, routeVars, graphVars, poolVars, apiVars>>

\* the next search_airtable call: a new airtable_graph.invoke(initial_state)
sub_invoke ==
  /\ sub_pc = "returned"
  /\ \E q \in SubQueries :
       /\ sub_messages' = initial_state(q).messages
       /\ retries_used' = initial_state(q).retries_used
  /\ sub_pc' = "agent"
  /\ sub_llm_calls' = 0 /\ sub_tool_runs' = 0
  /\ sub_all_tool' = TRUE /\ sub_all_error' = TRUE
  /\ UNCHANGED <<sub_out, sanVars, toolVars, routeVars, graphVars, poolVars, apiVars>>

NextSub == agent_node \/ agent_node_raises \/ tool_node_wrapper \/ sub_return \/ sub_invoke

SpecSub == InitSub /\ [][NextSub]_vars

\* C4: when the reasoning step always requests the tool and the tool always
\* returns an error observation, the sub-workflow ends after exactly
\* AIRTABLE_MAX_RETRIES + 1 reasoning invocations and tool executions.
SubRetryCeilingPlusOne ==
  (sub_pc = "end" /\ sub_all_tool /\ sub_all_error) =>
     /\ sub_llm_calls = AIRTABLE_MAX_RETRIES + 1
     /\ sub_tool_runs = AIRTABLE_MAX_RETRIES + 1

(***************************************************************************)
(* The main graph behind the chat and resume endpoints (Spec).             *)
(*                                                                         *)
(* checkpoints[t] is the latest checkpoint of thread t: the messages and   *)
(* the node to run next ("none": the thread has no checkpoint).  A request *)
(* (a slot of Reqs) loads the checkpoint when it starts, then runs one     *)
(* node per step on its own copy of the state and writes the result back   *)
(* as the new latest checkpoint.  Nothing in chat.py or graph.py holds a   *)
(* lock per thread, so steps of two requests interleave freely.            *)
(* sent logs the calls of send_email.invoke (call ids, in order);          *)
(* llm_input is the history of the last llm.ainvoke.  reply is what the    *)
(* last finished request returned to its caller, invoked logs the calls   *)
(* handed to a tool (call ids, in order), nsteps counts the node          *)
(* executions and nckpt the checkpoints they wrote, crashes the process   *)
(* stops.  req[r].loaded is the length of the history the run loaded.     *)
(* delegated logs the calls run by the Airtable sub-workflow; call_cap    *)
(* caps the tool calls the LLM issues in a behaviour.                     *)
(***************************************************************************)
Threads == {"t1"}

\* the thread ids of the two-thread specification
AllThreads == {"t1", "t2"}

Reqs == {"r1", "r2"}

SlotNo(r) == IF r = "r1" THEN 1 ELSE 2

MaxRequests == 2

MaxCalls == 2

MaxCrashes == 1

NoCheckpoint == [messages |-> <<>>, next |-> "none"]

IdleReq ==
  [st |-> "idle", kind |-> "none", action |-> "none", thread |-> "none",
   messages |-> <<>>, node |-> "none", loaded |-> 0]

\* a thread left by an earlier turn that used MAX_TOOL_MESSAGES - 1 lookups
SeededCheckpoint ==
  [messages |-> PriorTurn(MAX_TOOL_MESSAGES - 1) \o <<AIMessage(<<"Bonjour">>, <<>>)>>,
   next |-> "end"]

Init ==
  /\ checkpoints \in [Threads -> {NoCheckpoint, SeededCheckpoint}]
  /\ req = [r \in Reqs |-> IdleReq]
  /\ next_id = 0 /\ started = 0 /\ sent = <<>> /\ llm_input = <<>>
  /\ reply = "none" /\ invoked = <<>> /\ nsteps = 0 /\ nckpt = 0 /\ crashes = 0
  /\ delegated = <<>> /\ call_cap = MaxCalls
  /\ SanIdle /\ ToolIdle /\ RouteIdle /\ SubIdle /\ PoolIdle /\ ApiIdle

\* _to_langchain_messages: user -> HumanMessage, assistant -> AIMessage,
\* system (and any other role) skipped
RECURSIVE _to_langchain_messages(_)
_to_langchain_messages(body) ==
  IF body = <<>> THEN <<>>
  ELSE LET m == Head(body)
           rest == _to_langchain_messages(Tail(body))
       IN IF m.role = "user" THEN <<HumanMessage(m.content)>> \o rest
          ELSE IF m.role = "assistant" THEN <<AIMessage(m.content, <<>>)>> \o rest
          ELSE rest

ChatMessage(role, content) == [role |-> role, content |-> content]

\* the bodies of POST /api/chat: the new user message, alone or after a
\* system message
Bodies ==
  { <<ChatMessage("user", <<"Envoie un email">>)>>,
    <<ChatMessage("system", <<"Bonjour">>), ChatMessage("user", <<"Envoie un email">>)>> }

\* an input_state that repeats the whole body on an existing thread
InputMessagesAll(body, has_thread_id) == _to_langchain_messages(body)

\* input_state["messages"]: with a thread_id only the latest message
InputMessages(body, has_thread_id) ==
  LET lc_messages == _to_langchain_messages(body)
  IN IF has_thread_id THEN SubSeq(lc_messages, Len(lc_messages), Len(lc_messages))
     ELSE lc_messages

\* the add_messages reducer: the update is appended
add_messages(left, right) == left \o right

interrupt_before_none == {}

\* compile(checkpointer=checkpointer, interrupt_before=["tools_email"])
interrupt_before == {"tools_email"}

\* the conditional edges of "agent"
RouteNode(route) ==
  CASE route = "tools" -> "tools"
    [] route = "tools_email" -> "tools_email"
    [] route = "airtable" -> "delegate_to_airtable"
    [] OTHER -> "end"

\* the run stops at END and before a node of interrupt_before
Stops(node) == node = "end" \/ node \in interrupt_before

\* after a step: the run goes on with node, or returns and frees its slot
RunAfter(r, messages, node) ==
  IF Stops(node) THEN IdleReq
  ELSE [r EXCEPT !.messages = messages, !.node = node]

\* requests are anonymous: a new one takes the first free slot
FreeSlot(r) ==
  /\ req[r].st = "idle"
  /\ \A q \in Reqs : req[q].st = "idle" => SlotNo(r) <= SlotNo(q)

\* graph.astream_events(input_state, config): load the thread's
\* checkpoint, append the input, START -> agent
ChatStartWith(r, t, body, has_thread_id) ==
  /\ t \in DOMAIN checkpoints
  /\ FreeSlot(r)
  /\ started < MaxRequests
  /\ ~has_thread_id => checkpoints[t] = NoCheckpoint
  /\ LET messages == add_messages(checkpoints[t].messages,
                                  InputMessages(body, has_thread_id))
     IN /\ req' = [req EXCEPT ![r] =
                     [IdleReq EXCEPT !.st = "running", !.kind = "chat", !.thread = t,
                                     !.messages = messages, !.node = "agent",
                                     !.loaded = Len(checkpoints[t].messages)]]
        /\ checkpoints' = [checkpoints EXCEPT ![t] =
                             [messages |-> messages, next |-> "agent"]]
  /\ started' = started + 1
  /\ UNCHANGED <<next_id, sent, llm_input, reply, invoked, delegated, nsteps, nckpt, crashes, call_cap,
                 sanVars, toolVars, routeVars, subVars, poolVars>>

\* POST /api/chat by the owner of the thread, with the latest user message
ChatStart(r, t) ==
  /\ \E body \in Bodies, has_thread_id \in BOOLEAN : ChatStartWith(r, t, body, has_thread_id)
  /\ UNCHANGED apiVars

\* what chat_resume answers when graph.ainvoke returns without running a
\* node: {"status": "resumed", ...}; on a thread that has no checkpoint
\* the library may also refuse the Command, which chat_resume turns
\* into a 422
ResumeReplies(loaded) ==
  IF loaded = NoCheckpoint THEN {"resumed", "http_422"} ELSE {"resumed"}

\* POST /api/chat/resume: graph.ainvoke(Command(resume=action), config)
\* continues the thread from its checkpoint; the action is carried but no
\* node reads it
ResumeStartWith(r, t, action) ==
  /\ t \in DOMAIN checkpoints
  /\ FreeSlot(r)
  /\ started < MaxRequests
  /\ LET loaded == checkpoints[t]
         pending == loaded.next \in {"agent", "tools", "tools_email", "delegate_to_airtable"}
     IN /\ req' = [req EXCEPT ![r] =
                     IF pending
                     THEN [IdleReq EXCEPT !.st = "running", !.kind = "resume",
                                          !.action = action, !.thread = t,
                                          !.messages = loaded.messages,
                                          !.node = loaded.next,
                                          !.loaded = Len(loaded.messages)]
                     ELSE IdleReq]
        /\ IF pending THEN reply' = reply ELSE reply' \in ResumeReplies(loaded)
  /\ started' = started + 1
  /\ UNCHANGED <<checkpoints, next_id, sent, llm_input, invoked, delegated, nsteps, nckpt, crashes, call_cap,
                 sanVars, toolVars, routeVars, subVars, poolVars>>

\* POST /api/chat/resume by the owner of the thread, approve or reject
ResumeStart(r, t) ==
  /\ \E action \in {"approve", "reject"} : ResumeStartWith(r, t, action)
  /\ UNCHANGED apiVars

\* what one tool call meets: whether its arguments pass the schema, and
\* what the service does
CallOutcomes ==
  { [args_ok |-> TRUE, world |-> "ok"],
    [args_ok |-> FALSE, world |-> "raises"] }

\* the batches of tool calls the LLM answers with (names, in order)
LLMBatches ==
  { <<"send_email">>, <<"lookup_policy">>, <<"search_airtable">>,
    <<"send_email", "lookup_policy">>, <<"search_airtable", "">>,
    <<"search_airtable", "lookup_policy">> }

\* the responses of llm.ainvoke: text, or tool calls with fresh ids
LLMResponses ==
  {AIMessage(<<"Bonjour">>, <<>>)} \cup
  {AIMessage(<<>>, [k \in 1..Len(b) |-> ToolCall(next_id + k, b[k])]) :
     b \in {x \in LLMBatches : next_id + Len(x) <= call_cap}}

\* last = state["messages"][-1]; its tool calls, if it has any
PendingCalls(messages) ==
  IF messages # <<>> /\ HasToolCalls(messages[Len(messages)])
  THEN messages[Len(messages)].tool_calls
  ELSE <<>>

\* one executed call: the content of its ToolMessage, the ids it passed to
\* send_email.invoke, the ids it passed to any tool and the ids it ran
\* through the Airtable sub-workflow
Executed(content, emails, tools, subruns) ==
  [content |-> content, emails |-> emails, tools |-> tools, subruns |-> subruns]

run_tools_call_retry(tc, o) ==
  LET r == _run_tool(tc.name, o.args_ok, o.world).value
  IN Executed(r, IF tc.name = "send_email" THEN <<tc.id>> ELSE <<>>,
              IF tc.name \in KnownTools
              THEN (IF o.world = "ok" THEN <<tc.id>> ELSE <<tc.id, tc.id>>)
              ELSE <<>>,
              IF tc.name = "search_airtable" THEN <<tc.id>> ELSE <<>>)

run_tools_call_direct(tc, o) ==
  Executed(IF tc.name = "search_airtable" THEN <<"| Nom | Statut |">>
           ELSE _run_tool(tc.name, o.args_ok, o.world).value,
           IF tc.name = "send_email" THEN <<tc.id>> ELSE <<>>,
           IF tc.name \in KnownTools THEN <<tc.id>> ELSE <<>>,
           <<>>)

\* run_tools, one call: search_airtable through the sub-workflow, the rest
\* through _run_tool (which dispatches send_email too)
run_tools_call(tc, o) ==
  IF tc.name = "search_airtable"
  THEN Executed(_run_airtable_subgraph_sync(SubgraphResult(o.world)).value,
                <<>>, <<tc.id>>, <<tc.id>>)
  ELSE Executed(_run_tool(tc.name, o.args_ok, o.world).value,
                IF tc.name = "send_email" THEN <<tc.id>> ELSE <<>>,
                IF tc.name \in KnownTools THEN <<tc.id>> ELSE <<>>,
                <<>>)

run_tools_email_call_skip(tc, o) ==
  Executed(<<"Skipped (not email): ", tc.name>>, <<>>, <<>>, <<>>)

run_tools_email_call_all(tc, o) ==
  run_tools_call(tc, o)

\* run_tools_email, one call: only send_email is dispatched
run_tools_email_call(tc, o) ==
  IF tc.name = "send_email"
  THEN Executed(_run_tool(tc.name, o.args_ok, o.world).value, <<tc.id>>, <<tc.id>>, <<>>)
  ELSE Executed(<<"Skipped (not email): ", tc.name>>, <<>>, <<>>, <<>>)

\* delegate_to_airtable, one search_airtable call
delegate_call(tc, o) ==
  Executed(_run_airtable_subgraph_sync(SubgraphResult(o.world)).value,
           <<>>, <<tc.id>>, <<tc.id>>)

ToolMessagesNoId(calls, done) ==
  [k \in 1..Len(calls) |-> ToolMessage(done[k].content, 0)]

\* tool_messages.append(ToolMessage(content=content, tool_call_id=tool_call_id))
ToolMessages(calls, done) ==
  [k \in 1..Len(calls) |-> ToolMessage(done[k].content, calls[k].id)]

RECURSIVE EmailsOf(_)
EmailsOf(done) ==
  IF done = <<>> THEN <<>> ELSE Head(done).emails \o EmailsOf(Tail(done))

RECURSIVE ToolsOf(_)
ToolsOf(done) ==
  IF done = <<>> THEN <<>> ELSE Head(done).tools \o ToolsOf(Tail(done))

RECURSIVE SubrunsOf(_)
SubrunsOf(done) ==
  IF done = <<>> THEN <<>> ELSE Head(done).subruns \o SubrunsOf(Tail(done))

ToolEdgeEnd(node) == "end"

\* add_edge("tools", "agent"), add_edge("tools_email", "agent"),
\* add_edge("delegate_to_airtable", "agent")
ToolEdge(node) == "agent"

\* what the caller gets when the run returns: the stream ends (chat) or
\* {"status": "resumed"} (resume)
Completed(kind) == IF kind = "chat" THEN "stream_end" ELSE "resumed"

FailedAsCompleted(kind) == Completed(kind)

\* what the caller gets when the run raises: the apology chunk at the end
\* of the stream (chat) or HTTP 422 (resume)
Failed(kind) == IF kind = "chat" THEN "stream_error" ELSE "http_422"

CommitShared(r, messages, node) ==
  /\ req' = [req EXCEPT ![r] = RunAfter(req[r], messages, node)]
  /\ checkpoints' = [t \in DOMAIN checkpoints |-> [messages |-> messages, next |-> node]]
  /\ reply' = IF Stops(node) THEN Completed(req[r].kind) ELSE reply
  /\ nsteps' = nsteps + 1
  /\ nckpt' = nckpt + 1

CommitStale(r, messages, node) ==
  /\ req' = [req EXCEPT ![r] = RunAfter(req[r], messages, node)]
  /\ checkpoints' = [checkpoints EXCEPT ![req[r].thread] =
                       [messages |-> messages, next |-> req[r].node]]
  /\ reply' = IF Stops(node) THEN Completed(req[r].kind) ELSE reply
  /\ nsteps' = nsteps + 1
  /\ nckpt' = nckpt + 1

CommitAtStop(r, messages, node) ==
  /\ req' = [req EXCEPT ![r] = RunAfter(req[r], messages, node)]
  /\ checkpoints' = IF Stops(node)
                    THEN [checkpoints EXCEPT ![req[r].thread] =
                            [messages |-> messages, next |-> node]]
                    ELSE checkpoints
  /\ reply' = IF Stops(node) THEN Completed(req[r].kind) ELSE reply
  /\ nsteps' = nsteps + 1
  /\ nckpt' = IF Stops(node) THEN nckpt + 1 ELSE nckpt

\* the step's checkpoint write and the edge to the next node
Commit(r, messages, node) ==
  /\ req' = [req EXCEPT ![r] = RunAfter(req[r], messages, node)]
  /\ checkpoints' = [checkpoints EXCEPT ![req[r].thread] =
                       [messages |-> messages, next |-> node]]
  /\ reply' = IF Stops(node) THEN Completed(req[r].kind) ELSE reply
  /\ nsteps' = nsteps + 1
  /\ nckpt' = nckpt + 1

no_sanitize(messages, order) == messages

\* messages = [SystemMessage(...)] + _sanitize_messages_for_llm(state["messages"])
LLMInput(messages, order) == _sanitize_messages_for_llm(messages, order)

\* a reasoning node that also returns the placeholders it gave the LLM
call_model_keeps_placeholders(messages, order, response) ==
  SelectSeq(LLMInput(messages, order),
            LAMBDA m : isToolMessage(m) /\ m.content = _TOOL_INTERRUPTED_PLACEHOLDER)
    \o <<response>>

\* return {"messages": [response]}
call_model(messages, order, response) == <<response>>

\* call_model, then should_continue
AgentStep(r) ==
  /\ req[r].st = "running" /\ req[r].node = "agent"
  /\ \E response \in LLMResponses, order \in SetOrders :
       LET messages == add_messages(req[r].messages, call_model(req[r].messages, order, response))
       IN /\ llm_input' = LLMInput(req[r].messages, order)
          /\ next_id' = next_id + Len(response.tool_calls)
          /\ Commit(r, messages, RouteNode(should_continue(messages)))
  /\ UNCHANGED <<started, sent, invoked, delegated, crashes, call_cap, sanVars, toolVars, routeVars, subVars, poolVars, apiVars>>

\* call_model when llm.ainvoke raises: the step writes nothing, the run
\* ends with the exception, which _event_stream or chat_resume reports
AgentStepFails(r) ==
  /\ req[r].st = "running" /\ req[r].node = "agent"
  /\ \E order \in SetOrders : llm_input' = LLMInput(req[r].messages, order)
  /\ req' = [req EXCEPT ![r] = IdleReq]
  /\ reply' = Failed(req[r].kind)
  /\ nsteps' = nsteps + 1
  /\ UNCHANGED <<checkpoints, next_id, started, sent, invoked, delegated, nckpt, crashes, call_cap,
                 sanVars, toolVars, routeVars, subVars, poolVars, apiVars>>

\* run_tools, then the edge tools -> agent
ToolsStep(r) ==
  /\ req[r].st = "running" /\ req[r].node = "tools"
  /\ LET calls == PendingCalls(req[r].messages) IN
     \E outs \in [1..Len(calls) -> CallOutcomes] :
       LET done == [k \in 1..Len(calls) |-> run_tools_call(calls[k], outs[k])]
       IN /\ Commit(r, add_messages(req[r].messages, ToolMessages(calls, done)),
                    ToolEdge("tools"))
          /\ sent' = sent \o EmailsOf(done)
          /\ invoked' = invoked \o ToolsOf(done)
          /\ delegated' = delegated \o SubrunsOf(done)
  /\ UNCHANGED <<next_id, started, llm_input, crashes, call_cap, sanVars, toolVars, routeVars, subVars, poolVars, apiVars>>

\* run_tools_email, then the edge tools_email -> agent
ToolsEmailStep(r) ==
  /\ req[r].st = "running" /\ req[r].node = "tools_email"
  /\ LET calls == PendingCalls(req[r].messages) IN
     \E outs \in [1..Len(calls) -> CallOutcomes] :
       LET done == [k \in 1..Len(calls) |-> run_tools_email_call(calls[k], outs[k])]
       IN /\ Commit(r, add_messages(req[r].messages, ToolMessages(calls, done)),
                    ToolEdge("tools_email"))
          /\ sent' = sent \o EmailsOf(done)
          /\ invoked' = invoked \o ToolsOf(done)
          /\ delegated' = delegated \o SubrunsOf(done)
  /\ UNCHANGED <<next_id, started, llm_input, crashes, call_cap, sanVars, toolVars, routeVars, subVars, poolVars, apiVars>>

\* delegate_to_airtable, then the edge delegate_to_airtable -> agent
DelegateStep(r) ==
  /\ req[r].st = "running" /\ req[r].node = "delegate_to_airtable"
  /\ LET calls == SelectSeq(PendingCalls(req[r].messages),
                            LAMBDA tc : tc.name = "search_airtable") IN
     \E outs \in [1..Len(calls) -> CallOutcomes] :
       LET done == [k \in 1..Len(calls) |-> delegate_call(calls[k], outs[k])]
       IN /\ Commit(r, add_messages(req[r].messages, ToolMessages(calls, done)),
                    ToolEdge("delegate_to_airtable"))
          /\ invoked' = invoked \o ToolsOf(done)
          /\ delegated' = delegated \o SubrunsOf(done)
  /\ UNCHANGED <<next_id, started, sent, llm_input, crashes, call_cap,
                 sanVars, toolVars, routeVars, subVars, poolVars, apiVars>>

\* the process stops: the runs in progress are gone, the checkpoints stay
Crash ==
  /\ crashes < MaxCrashes
  /\ \E r \in Reqs : req[r].st = "running"
  /\ req' = [r \in Reqs |-> IdleReq]
  /\ crashes' = crashes + 1
  /\ UNCHANGED <<checkpoints, next_id, started, sent, llm_input, reply, invoked, delegated,
                 nsteps, nckpt, call_cap, sanVars, toolVars, routeVars, subVars, poolVars, apiVars>>

\* the calls the node of request r works through
NodeCalls(r) ==
  CASE req[r].node = "tools" -> PendingCalls(req[r].messages)
    [] req[r].node = "delegate_to_airtable" ->
         SelectSeq(PendingCalls(req[r].messages), LAMBDA tc : tc.name = "search_airtable")
    [] OTHER -> <<>>

\* a CancelledError is delivered at an await: before the node's first call,
\* or while call j runs in asyncio.to_thread (calls 1..j were handed to
\* their tools)
CancelPoints(calls) ==
  {0} \cup {j \in 1..Len(calls) : calls[j].name = "search_airtable"}

CancelledCheckpointPartial(r, partial) ==
  [messages |-> partial, next |-> req[r].node]

\* the node's return value is never reached: nothing is written
CancelledCheckpoint(r, partial) == checkpoints[req[r].thread]

\* the client of a chat stream disconnects while a node is in flight:
\* _event_stream re-raises asyncio.CancelledError
Cancel(r) ==
  /\ req[r].st = "running" /\ req[r].kind = "chat"
  /\ LET calls == NodeCalls(r) IN
     \E k \in CancelPoints(calls) :
       \E outs \in [1..k -> CallOutcomes] :
         LET done == [j \in 1..k |->
                        IF req[r].node = "tools" THEN run_tools_call(calls[j], outs[j])
                        ELSE delegate_call(calls[j], outs[j])]
             partial == add_messages(req[r].messages,
                                     ToolMessages(SubSeq(calls, 1, k), done))
         IN /\ sent' = sent \o EmailsOf(done)
            /\ invoked' = invoked \o ToolsOf(done)
            /\ delegated' = delegated \o SubrunsOf(done)
            /\ checkpoints' = [checkpoints EXCEPT ![req[r].thread] =
                                 CancelledCheckpoint(r, partial)]
  /\ IF req[r].node = "agent"
     THEN \E order \in SetOrders : llm_input' = LLMInput(req[r].messages, order)
     ELSE llm_input' = llm_input
  /\ req' = [req EXCEPT ![r] = IdleReq]
  /\ reply' = "cancelled"
  /\ UNCHANGED <<next_id, started, nsteps, nckpt, crashes, call_cap,
                 sanVars, toolVars, routeVars, subVars, poolVars, apiVars>>

Next ==
  \/ \E r \in Reqs, t \in AllThreads : ChatStart(r, t)
  \/ \E r \in Reqs, t \in AllThreads : ResumeStart(r, t)
  \/ \E r \in Reqs : AgentStep(r)
  \/ \E r \in Reqs : AgentStepFails(r)
  \/ \E r \in Reqs : ToolsStep(r)
  \/ \E r \in Reqs : ToolsEmailStep(r)
  \/ \E r \in Reqs : DelegateStep(r)
  \/ \E r \in Reqs : Cancel(r)
  \/ Crash

Spec == Init /\ [][Next]_vars

(***************************************************************************)
(* Two threads side by side (SpecThreads): the same requests and steps,    *)
(* each request on the thread its config names.                            *)
(***************************************************************************)
InitThreads ==
  /\ checkpoints = [t \in AllThreads |-> NoCheckpoint]
  /\ req = [r \in Reqs |-> IdleReq]
  /\ next_id = 0 /\ started = 0 /\ sent = <<>> /\ llm_input = <<>>
  /\ reply = "none" /\ invoked = <<>> /\ nsteps = 0 /\ nckpt = 0 /\ crashes = 0
  /\ delegated = <<>> /\ call_cap = MaxCalls
  /\ SanIdle /\ ToolIdle /\ RouteIdle /\ SubIdle /\ PoolIdle /\ ApiIdle

SpecThreads == InitThreads /\ [][Next]_vars

(***************************************************************************)
(* One chat turn against an LLM that may ask for tools at every reasoning  *)
(* step (SpecTurn): the thread already holds all but MaxTurnLoops of the   *)
(* MAX_TOOL_MESSAGES tool_results, and call_cap is what a turn can issue   *)
(* before the ceiling stops it, so the cap never restrains the LLM.        *)
(***************************************************************************)
MaxTurnLoops == 2

LongestBatch ==
  CHOOSE n \in 0..Cardinality(ToolNames) :
    /\ \E b \in LLMBatches : Len(b) = n
    /\ \A b \in LLMBatches : Len(b) <= n

\* a thread left by an earlier turn that used n lookups
SeededWith(n) ==
  [messages |-> PriorTurn(n) \o <<AIMessage(<<"Bonjour">>, <<>>)>>, next |-> "end"]

InitTurn ==
  /\ \E n \in (MAX_TOOL_MESSAGES - MaxTurnLoops)..(MAX_TOOL_MESSAGES - 1) :
       checkpoints = [t \in Threads |-> SeededWith(n)]
  /\ req = [r \in Reqs |-> IdleReq]
  /\ next_id = 0 /\ started = MaxRequests - 1 /\ sent = <<>> /\ llm_input = <<>>
  /\ reply = "none" /\ invoked = <<>> /\ nsteps = 0 /\ nckpt = 0 /\ crashes = 0
  /\ delegated = <<>> /\ call_cap = LongestBatch * (MaxTurnLoops + 1)
  /\ SanIdle /\ ToolIdle /\ RouteIdle /\ SubIdle /\ PoolIdle /\ ApiIdle

NextTurn ==
  \/ \E r \in Reqs, t \in AllThreads : ChatStart(r, t)
  \/ \E r \in Reqs : AgentStep(r)
  \/ \E r \in Reqs : ToolsStep(r)
  \/ \E r \in Reqs : DelegateStep(r)

\* the event loop runs a started turn on: every enabled step is taken
FairTurn ==
  \A r \in Reqs :
    WF_vars(AgentStep(r)) /\ WF_vars(ToolsStep(r)) /\ WF_vars(DelegateStep(r))

SpecTurn == InitTurn /\ [][NextTurn]_vars /\ FairTurn

(***************************************************************************)
(* get_graph called by concurrent requests of one process (SpecPool).  The *)
(* handlers run on one event loop: the code between two awaits is one      *)
(* step.  A pool and a compiled graph are named after the caller that      *)
(* created them; pools_opened is the set of pools whose open() has         *)
(* completed; gg[c] is caller c's position, the pool its checkpointer      *)
(* holds and the graph it was given.                                       *)
(***************************************************************************)
InitPool ==
  /\ PoolIdle
  /\ SanIdle /\ ToolIdle /\ RouteIdle /\ SubIdle /\ GraphIdle /\ ApiIdle

\* if _compiled_graph is not None: return _compiled_graph
get_graph_cached(c) ==
  /\ gg[c].pc = "idle" /\ _compiled_graph # "None"
  /\ gg' = [gg EXCEPT ![c].pc = "done", ![c].graph = _compiled_graph]
  /\ UNCHANGED <<_pool, _compiled_graph, pools_opened>>
  /\ UNCHANGED <<sanVars, toolVars, routeVars, subVars, graphVars, apiVars>>

\* _pool = AsyncConnectionPool(..., open=False), up to await _pool.open()
get_graph_create(c) ==
  /\ gg[c].pc = "idle" /\ _compiled_graph = "None"
  /\ _pool' = c
  /\ gg' = [gg EXCEPT ![c].pc = "open"]
  /\ UNCHANGED <<_compiled_graph, pools_opened>>
  /\ UNCHANGED <<sanVars, toolVars, routeVars, subVars, graphVars, apiVars>>

\* _pool.open() completes; checkpointer = AsyncPostgresSaver(conn=_pool),
\* up to await checkpointer.setup()
get_graph_opened(c) ==
  /\ gg[c].pc = "open"
  /\ pools_opened' = pools_opened \cup {c}
  /\ gg' = [gg EXCEPT ![c].pc = "setup", ![c].checkpointer = _pool]
  /\ UNCHANGED <<_pool, _compiled_graph>>
  /\ UNCHANGED <<sanVars, toolVars, routeVars, subVars, graphVars, apiVars>>

\* checkpointer.setup() completes; _compiled_graph = _build_graph().compile(...)
get_graph_compile(c) ==
  /\ gg[c].pc = "setup"
  /\ _compiled_graph' = c
  /\ gg' = [gg EXCEPT ![c].pc = "done", ![c].graph = c]
  /\ UNCHANGED <<_pool, pools_opened>>
  /\ UNCHANGED <<sanVars, toolVars, routeVars, subVars, graphVars, apiVars>>

NextPool ==
  \/ \E c \in Callers : get_graph_cached(c)
  \/ \E c \in Callers : get_graph_create(c)
  \/ \E c \in Callers : get_graph_opened(c)
  \/ \E c \in Callers : get_graph_compile(c)

SpecPool == InitPool /\ [][NextPool]_vars

(***************************************************************************)
(* The chat and resume endpoints with their request checks (SpecApi).      *)
(* owner[t] is the user of thread t in the threads table ("none": no row);  *)
(* request is the request received last.  The thread is new, ended or      *)
(* paused before tools_email; a request has any body of up to MaxBodyLen   *)
(* messages, any of ResumeActions, any of Users.                           *)
(***************************************************************************)
Users == {"u1", "u2"}

MaxBodyLen == 2

ResumeActions == {"approve", "reject", "maybe"}

ChatBodies ==
  UNION {[1..n -> {ChatMessage(role, content) :
                     role \in {"user", "assistant", "system"},
                     content \in {<<"Envoie un email">>, <<"Bonjour">>}}] : n \in 0..MaxBodyLen}

\* a thread whose last turn ended
EndedCheckpoint ==
  [messages |-> <<HumanMessage(<<"Envoie un email">>), AIMessage(<<"Bonjour">>, <<>>)>>,
   next |-> "end"]

\* a thread paused before tools_email
PausedCheckpoint ==
  [messages |-> <<HumanMessage(<<"Envoie un email">>),
                  AIMessage(<<>>, <<ToolCall(1, "send_email")>>)>>,
   next |-> "tools_email"]

InitApi ==
  /\ checkpoints \in [Threads -> {NoCheckpoint, EndedCheckpoint, PausedCheckpoint}]
  /\ owner \in [Threads -> Users \cup {"none"}]
  /\ \A t \in Threads : checkpoints[t] # NoCheckpoint => owner[t] \in Users
  /\ request = NoRequest
  /\ req = [r \in Reqs |-> IdleReq]
  /\ next_id = 1 /\ started = 0 /\ sent = <<>> /\ llm_input = <<>>
  /\ reply = "none" /\ invoked = <<>> /\ nsteps = 0 /\ nckpt = 0 /\ crashes = 0
  /\ delegated = <<>> /\ call_cap = MaxCalls
  /\ SanIdle /\ ToolIdle /\ RouteIdle /\ SubIdle /\ PoolIdle

\* _ensure_thread: the thread of another user is refused (403), an unknown
\* thread id and a request without thread id create the row
_ensure_thread(user, t, has_thread_id) ==
  IF has_thread_id /\ owner[t] \notin {"none", user}
  THEN [ok |-> FALSE, owner |-> owner]
  ELSE [ok |-> TRUE, owner |-> [owner EXCEPT ![t] = user]]

\* raise HTTPException(status): the handler ends before the graph is used
Rejected(status) ==
  /\ reply' = status
  /\ started' = started + 1
  /\ UNCHANGED <<checkpoints, req, next_id, sent, llm_input, invoked, delegated, nsteps, nckpt,
                 crashes, call_cap, sanVars, toolVars, routeVars, subVars, poolVars>>

\* POST /api/chat
chat_stream(r, t, user) ==
  /\ t \in DOMAIN checkpoints
  /\ FreeSlot(r)
  /\ started < MaxRequests
  /\ \E body \in ChatBodies, has_thread_id \in BOOLEAN :
       /\ ~has_thread_id => (owner[t] = "none" /\ checkpoints[t] = NoCheckpoint)
       /\ request' = [kind |-> "chat", user |-> user, thread |-> t,
                      has_thread_id |-> has_thread_id, body |-> body, action |-> "none"]
       /\ LET thread == _ensure_thread(user, t, has_thread_id)
          IN IF ~thread.ok
             THEN Rejected("http_403") /\ owner' = owner
             ELSE /\ owner' = thread.owner
                  /\ IF _to_langchain_messages(body) = <<>>
                     THEN Rejected("http_400")
                     ELSE ChatStartWith(r, t, body, has_thread_id)

\* a check that lets every action through
valid_action_any(action) == TRUE

\* if body.action not in ("approve", "reject"): 400
valid_action(action) == action \in {"approve", "reject"}

\* POST /api/chat/resume
chat_resume(r, t, user) ==
  /\ t \in DOMAIN checkpoints
  /\ FreeSlot(r)
  /\ started < MaxRequests
  /\ \E action \in ResumeActions :
       /\ request' = [kind |-> "resume", user |-> user, thread |-> t,
                      has_thread_id |-> TRUE, body |-> <<>>, action |-> action]
       /\ IF ~valid_action(action)
          THEN Rejected("http_400") /\ owner' = owner
          ELSE LET thread == _ensure_thread(user, t, TRUE)
               IN IF ~thread.ok
                  THEN Rejected("http_403") /\ owner' = owner
                  ELSE owner' = thread.owner /\ ResumeStartWith(r, t, action)

NextApi ==
  \/ \E r \in Reqs, t \in Threads, user \in Users : chat_stream(r, t, user)
  \/ \E r \in Reqs, t \in Threads, user \in Users : chat_resume(r, t, user)
  \/ \E r \in Reqs : AgentStep(r)
  \/ \E r \in Reqs : ToolsStep(r)
  \/ \E r \in Reqs : ToolsEmailStep(r)
  \/ \E r \in Reqs : DelegateStep(r)

SpecApi == InitApi /\ [][NextApi]_vars

\* the tool_results of history h that answer call id
Answers(h, id) == {j \in 1..Len(h) : isToolMessage(h[j]) /\ h[j].tool_call_id = id}

Range(s) == {s[k] : k \in 1..Len(s)}

Count(s, x) == Cardinality({k \in 1..Len(s) : s[k] = x})

IsPrefix(s, t) == Len(s) <= Len(t) /\ SubSeq(t, 1, Len(s)) = s

\* the messages a step of request r appended to its state
Appended(r) ==
  SubSeq(req'[r].messages, Len(req[r].messages) + 1, Len(req'[r].messages))

\* this step is request r, a resume with the given action, running tools_email
EmailStepBy(r, action) ==
  /\ req[r].st = "running" /\ req[r].node = "tools_email"
  /\ req[r].kind = "resume" /\ req[r].action = action
  /\ req'[r] # req[r] /\ nsteps' = nsteps + 1

\* what send_email.invoke can answer through the dispatcher
SendEmailResults ==
  {_run_tool("send_email", o.args_ok, o.world).value : o \in CallOutcomes}

\* C1: a resume with "reject" from the pause before tools_email appends,
\* for every pending send_email call, a tool_result containing "skipped",
\* goes on to the reasoning node, and does not invoke send_email.
RejectSkipsEmail ==
  [][\A r \in Reqs :
       EmailStepBy(r, "reject") =>
         LET calls == PendingCalls(req[r].messages)
             new == Appended(r)
         IN /\ Len(new) = Len(calls)
            /\ \A k \in 1..Len(calls) :
                 calls[k].name = "send_email" =>
                   /\ new[k].tool_call_id = calls[k].id
                   /\ Contains(Lower(Text(new[k].content)),
                               <<"s", "k", "i", "p", "p", "e", "d">>)
            /\ sent' = sent
            /\ req'[r].node = "agent"]_vars

\* this step is request r running the reasoning node
AgentStepBy(r) ==
  /\ req[r].st = "running" /\ req[r].node = "agent"
  /\ req'[r] # req[r] /\ nsteps' = nsteps + 1

SendEmailCalls(msg) ==
  {msg.tool_calls[k].id : k \in {j \in 1..Len(msg.tool_calls) :
                                   msg.tool_calls[j].name = "send_email"}}

\* C2: when the reasoning node emits tool calls that include send_email and
\* the thread holds fewer than MAX_TOOL_MESSAGES tool_results, the run
\* stops there: the saved state has next = tools_email, no tool_result
\* answers the call and send_email has not been invoked for it.
GatedPause ==
  [][\A r \in Reqs :
       AgentStepBy(r) =>
         LET saved == checkpoints'[req[r].thread]
             last == saved.messages[Len(saved.messages)]
         IN (SendEmailCalls(last) # {} /\ ToolCount(saved.messages) < MAX_TOOL_MESSAGES) =>
              /\ saved.next = "tools_email"
              /\ req'[r].st = "idle"
              /\ \A id \in SendEmailCalls(last) :
                   Answers(saved.messages, id) = {} /\ id \notin Range(sent')]_vars

\* a thread is paused before tools_email with a pending send_email call,
\* nothing is running and no email was sent
GatedPauseWitness ==
  \E t \in Threads :
    /\ checkpoints[t].next = "tools_email"
    /\ SendEmailCalls(checkpoints[t].messages[Len(checkpoints[t].messages)]) # {}
    /\ \A r \in Reqs : req[r].st = "idle"
    /\ sent = <<>>

\* C3: a resume with "approve" from the pause runs tools_email: send_email
\* is invoked once per pending send_email call, its result is appended as
\* the tool_result of that call, and the reasoning node is next.
ApproveRunsEmail ==
  [][\A r \in Reqs :
       EmailStepBy(r, "approve") =>
         LET calls == PendingCalls(req[r].messages)
             new == Appended(r)
         IN /\ Len(new) = Len(calls)
            /\ \A k \in 1..Len(calls) :
                 calls[k].name = "send_email" =>
                   /\ isToolMessage(new[k])
                   /\ new[k].tool_call_id = calls[k].id
                   /\ new[k].content \in SendEmailResults
                   /\ Count(sent', calls[k].id) = Count(sent, calls[k].id) + 1
            /\ req'[r].st = "running" /\ req'[r].node = "agent"
            /\ checkpoints'[req[r].thread] =
                 [messages |-> req'[r].messages, next |-> "agent"]]_vars

\* an approved resume has run tools_email: the email went out and the run
\* is about to call the LLM with the result
ApproveRunsEmailWitness ==
  \E r \in Reqs :
    /\ req[r].kind = "resume" /\ req[r].action = "approve" /\ req[r].node = "agent"
    /\ sent # <<>>
    /\ LET last == req[r].messages[Len(req[r].messages)]
       IN isToolMessage(last) /\ last.tool_call_id \in Range(sent)
                              /\ last.content \in SendEmailResults

\* no two requests run a step on the same thread at the same time
OneStepPerThread ==
  \A r1, r2 \in Reqs :
    (req[r1].st = "running" /\ req[r2].st = "running" /\ req[r1].thread = req[r2].thread)
      => r1 = r2

\* every checkpoint written extends the thread's latest checkpoint
NoLostUpdate ==
  \A t \in Threads : IsPrefix(checkpoints[t].messages, checkpoints'[t].messages)

\* C7: at most one step per thread is in progress at a time, and no
\* checkpoint update of one request is lost or overwritten by another.
StepsSerialized ==
  []OneStepPerThread /\ [][NoLostUpdate]_vars

\* C11: if the LLM call of the reasoning node fails, the step writes no
\* checkpoint (the thread's persisted state stays the last checkpoint) and
\* the caller is told that the turn failed.
LLMFailureLeavesCheckpoint ==
  [][\A r \in Reqs :
       AgentStepFails(r) =>
         /\ checkpoints' = checkpoints
         /\ nckpt' = nckpt
         /\ req'[r].st = "idle"
         /\ reply' \in {"stream_error", "http_422"}
         /\ reply' # Completed(req[r].kind)]_vars

\* a chat turn failed in its first reasoning step: the caller got the
\* error and the thread still holds the checkpoint of the input
LLMFailureLeavesCheckpointWitness ==
  /\ reply = "stream_error"
  /\ nsteps = 1 /\ nckpt = 0 /\ started = 1 /\ crashes = 0
  /\ \A r \in Reqs : req[r].st = "idle"
  /\ \E t \in Threads :
       /\ checkpoints[t].next = "agent"
       /\ checkpoints[t].messages[Len(checkpoints[t].messages)].type = "human"

\* the first step of a run that continues a thread whose loaded history
\* ends with a tool_result
ContinuesAfterTool(r) ==
  /\ req[r].st = "running" /\ req'[r] # req[r] /\ nsteps' = nsteps + 1
  /\ req[r].loaded > 0
  /\ isToolMessage(req[r].messages[req[r].loaded])
  /\ Len(req[r].messages) = req[r].loaded + (IF req[r].kind = "chat" THEN 1 ELSE 0)

\* C12: continuing a thread from the checkpoint a tool node wrote runs the
\* reasoning node (once, then the router decides) on a history that holds
\* the recorded tool_results, and invokes no tool in doing so.
ContinueRunsReasoningOnce ==
  [][\A r \in Reqs :
       ContinuesAfterTool(r) =>
         /\ req[r].node = "agent"
         /\ req'[r].node # "agent"
         /\ invoked' = invoked /\ sent' = sent
         /\ \A k \in 1..req[r].loaded :
              isToolMessage(req[r].messages[k]) =>
                Count(llm_input', req[r].messages[k]) >= 1]_vars

\* after a process stop a resume loaded a history that ends with a
\* tool_result, ran the reasoning node on it and is on its way to the next
\* tool node
ContinueRunsReasoningOnceWitness ==
  \E r \in Reqs :
    /\ crashes = 1
    /\ req[r].st = "running" /\ req[r].kind = "resume"
    /\ req[r].loaded > 0 /\ Len(req[r].messages) = req[r].loaded + 1
    /\ isToolMessage(req[r].messages[req[r].loaded])
    /\ req[r].node \in {"tools", "delegate_to_airtable"}
    /\ req[r].messages[req[r].loaded] \in Range(llm_input)
    /\ Len(invoked) = 1

\* C13: a resume on a thread whose latest checkpoint is not paused before
\* tools_email fails with an error for the caller, runs no node and leaves
\* the thread's persisted state unchanged.
ResumeNeedsPause ==
  [][\A r \in Reqs, t \in Threads :
       (ResumeStart(r, t) /\ checkpoints[t].next # "tools_email") =>
         /\ reply' = "http_422"
         /\ req'[r].st = "idle"
         /\ checkpoints' = checkpoints]_vars

ToolNodes == {"tools", "tools_email", "delegate_to_airtable"}

\* this step is request r running a tool node
ToolStepBy(r) ==
  /\ req[r].st = "running" /\ req[r].node \in ToolNodes
  /\ req'[r] # req[r] /\ nsteps' = nsteps + 1

\* C14: a tool node that runs on an assistant message with tool calls
\* c1..cn appends exactly n tool_results, with the ids of c1..cn in order.
ToolNodeAnswersEveryCall ==
  [][\A r \in Reqs :
       ToolStepBy(r) =>
         LET calls == PendingCalls(req[r].messages)
             new == Appended(r)
         IN /\ Len(new) = Len(calls)
            /\ \A k \in 1..Len(calls) :
                 isToolMessage(new[k]) /\ new[k].tool_call_id = calls[k].id]_vars

\* C15: the tools_email node executes send_email only: a call of the batch
\* that names another tool is handed to no tool and gets a 'skipped'
\* observation as its tool_result.
OnlyEmailInGatedNode ==
  [][\A r \in Reqs :
       (ToolStepBy(r) /\ req[r].node = "tools_email") =>
         LET calls == PendingCalls(req[r].messages)
             new == Appended(r)
         IN /\ Len(new) = Len(calls)
            /\ \A k \in 1..Len(calls) :
                 IF calls[k].name = "send_email"
                 THEN Count(invoked', calls[k].id) = Count(invoked, calls[k].id) + 1
                 ELSE /\ Count(invoked', calls[k].id) = Count(invoked, calls[k].id)
                      /\ isToolMessage(new[k])
                      /\ new[k].tool_call_id = calls[k].id
                      /\ Contains(Lower(Text(new[k].content)),
                                  <<"s", "k", "i", "p", "p", "e", "d">>)
            /\ Len(invoked') = Len(invoked) +
                 Cardinality({k \in 1..Len(calls) : calls[k].name = "send_email"})]_vars

\* tools_email has run on a batch of send_email and lookup_policy: one
\* tool was invoked and the last tool_result is the skipped lookup
OnlyEmailInGatedNodeWitness ==
  \E r \in Reqs :
    /\ req[r].st = "running" /\ req[r].node = "agent" /\ req[r].kind = "resume"
    /\ Len(req[r].messages) >= 3
    /\ LET n == Len(req[r].messages)
           batch == req[r].messages[n - 2]
       IN /\ HasToolCalls(batch) /\ Len(batch.tool_calls) = 2
          /\ batch.tool_calls[1].name = "send_email"
          /\ batch.tool_calls[2].name = "lookup_policy"
          /\ req[r].messages[n].content = <<"Skipped (not email): ", "lookup_policy">>
          /\ invoked = <<batch.tool_calls[1].id>>

Last(s) == s[Len(s)]

\* the turn of C16 has run to its end on thread t: a human message, one
\* lookup_policy call, its result without error, the final text
LookupTurnDone(t) ==
  LET m == checkpoints[t].messages IN
  /\ started = 1 /\ crashes = 0
  /\ \A r \in Reqs : req[r].st = "idle"
  /\ checkpoints[t].next = "end"
  /\ Len(m) = 4
  /\ m[1].type = "human"
  /\ HasToolCalls(m[2]) /\ Len(m[2].tool_calls) = 1
  /\ m[2].tool_calls[1].name = "lookup_policy"
  /\ isToolMessage(m[3])
  /\ ~Contains(Text(m[3].content), <<"E", "r", "r", "o", "r">>)
  /\ ~HasToolCalls(m[4])

GraphTransitions ==
  [][/\ \A r \in Reqs :
          /\ (req[r].st = "idle" /\ req'[r].st = "running" /\ req'[r].kind = "chat")
               => req'[r].node = "agent"
          /\ (req[r].st = "running" /\ req'[r] # req[r] /\ nsteps' = nsteps + 1) =>
               IF req[r].node = "agent"
               THEN \/ AgentStepFails(r)
                    \/ LET saved == checkpoints'[req[r].thread] IN
                       /\ saved.next \in ToolNodes \cup {"end"}
                       /\ saved.next = RouteNode(should_continue(saved.messages))
                       /\ req'[r].st = "running" => req'[r].node = saved.next
               ELSE /\ req[r].node \in ToolNodes
                    /\ req'[r].st = "running" /\ req'[r].node = "agent"
                    /\ checkpoints'[req[r].thread].next = "agent"
     /\ \A t \in Threads :
          (checkpoints'[t] # checkpoints[t] /\ checkpoints'[t].next = "end") =>
             \E r \in Reqs : /\ req[r].st = "running" /\ req[r].thread = t
                             /\ req[r].node = "agent" /\ req'[r].st = "idle"]_vars

\* a turn went agent -> tools_email (pause), tools_email -> agent, agent -> end
GraphTransitionsWitness ==
  \E t \in Threads :
    /\ checkpoints[t].next = "end"
    /\ sent # <<>> /\ reply = "resumed"
    /\ nsteps = nckpt /\ nsteps >= 3
    /\ \A r \in Reqs : req[r].st = "idle"
    /\ isToolMessage(checkpoints[t].messages[Len(checkpoints[t].messages) - 1])

\* in history h every tool call of every assistant message is answered by
\* a tool_result in the run of tool messages right after that message
AllAnswered(h) ==
  \A i \in 1..Len(h) :
    HasToolCalls(h[i]) =>
      \A c \in 1..Len(h[i].tool_calls) :
        \E j \in (i + 1)..Len(h) :
          /\ \A x \in (i + 1)..j : isToolMessage(h[x])
          /\ h[j].tool_call_id = h[i].tool_calls[c].id

\* C18: the history the reasoning node hands to the LLM is the sanitized
\* thread history: no tool call of an assistant message is left without a
\* tool_result, also after a rate-limited turn or a gated pause that a new
\* human message followed.
LLMInputSanitized ==
  [][\A r \in Reqs :
       (req[r].st = "running" /\ req[r].node = "agent"
          /\ req'[r] # req[r] /\ nsteps' = nsteps + 1) =>
         /\ AllAnswered(llm_input')
         /\ \E order \in SetOrders :
              llm_input' = _sanitize_messages_for_llm(req[r].messages, order)
         /\ \A k \in 1..Len(req[r].messages) :
              Count(llm_input', req[r].messages[k]) >= Count(req[r].messages, req[r].messages[k])]_vars

\* the LLM was called after a gated pause that a new human message
\* followed: the abandoned send_email call carries the placeholder
LLMInputSanitizedWitness ==
  \E i \in 1..(Len(llm_input) - 2) :
    /\ HasToolCalls(llm_input[i])
    /\ llm_input[i].tool_calls[1].name = "send_email"
    /\ llm_input[i + 1] =
         ToolMessage(_TOOL_INTERRUPTED_PLACEHOLDER, llm_input[i].tool_calls[1].id)
    /\ llm_input[i + 2].type = "human"

\* the LLM was called on a thread whose last turn ended on the rate limit
RateLimitedThenSanitized ==
  \E i \in 1..(Len(llm_input) - 2) :
    /\ HasToolCalls(llm_input[i])
    /\ ToolCount(SubSeq(llm_input, 1, i)) >= MAX_TOOL_MESSAGES
    /\ llm_input[i + 1] =
         ToolMessage(_TOOL_INTERRUPTED_PLACEHOLDER, llm_input[i].tool_calls[1].id)
    /\ llm_input[i + 2].type = "human"

\* the assistant messages before position j of h that carry a call with id
Issuers(h, j, id) ==
  {i \in 1..(j - 1) :
     HasToolCalls(h[i]) /\ \E c \in 1..Len(h[i].tool_calls) : h[i].tool_calls[c].id = id}

\* C20: in every persisted thread state each tool_result's tool_call_id
\* is the id of a tool call of exactly one preceding assistant message.
ToolResultsMatchOneCall ==
  \A t \in Threads :
    LET m == checkpoints[t].messages IN
    \A j \in 1..Len(m) :
      isToolMessage(m[j]) => Cardinality(Issuers(m, j, m[j].tool_call_id)) = 1

\* a thread holds the tool_results of two tool steps of its runs
ToolResultsMatchOneCallWitness ==
  \E t \in Threads :
    LET m == checkpoints[t].messages IN
    \E j1, j2 \in 1..Len(m) :
      /\ j1 < j2
      /\ isToolMessage(m[j1]) /\ isToolMessage(m[j2])
      /\ m[j1].tool_call_id \in 1..MaxCalls /\ m[j2].tool_call_id \in 1..MaxCalls
      /\ m[j1].tool_call_id # m[j2].tool_call_id
      /\ Issuers(m, j1, m[j1].tool_call_id) # Issuers(m, j2, m[j2].tool_call_id)

\* the call ids of message m
CallIds(m) == {m.tool_calls[c].id : c \in 1..Len(m.tool_calls)}

\* s is h with placeholder tool_results added, each inside the run of tool
\* messages that follows the assistant message issuing its call; open
\* holds the call ids of that assistant message while its run lasts
RECURSIVE Embeds(_, _, _)
Embeds(h, s, open) ==
  IF s = <<>> THEN h = <<>>
  ELSE \/ /\ h # <<>> /\ Head(h) = Head(s)
          /\ Embeds(Tail(h), Tail(s),
                    IF HasToolCalls(Head(s)) THEN CallIds(Head(s))
                    ELSE IF isToolMessage(Head(s)) THEN open ELSE {})
       \/ /\ isToolMessage(Head(s))
          /\ Head(s).content = _TOOL_INTERRUPTED_PLACEHOLDER
          /\ Head(s).tool_call_id \in open
          /\ Embeds(h, Tail(s), open)

\* C19: the sanitizer keeps the messages of the history in their order and
\* adds nothing but placeholder tool_results, each after the assistant
\* message that issued the call and before the next non-tool message.
SanitizerPreservesOrder ==
  san_pc \in {"once", "twice"} => Embeds(san_messages, san_result, {})

\* a placeholder was put between an assistant message and the message
\* that followed it
SanitizerPreservesOrderWitness ==
  /\ san_pc = "once"
  /\ \E i \in 2..(Len(san_result) - 1) :
       /\ san_result[i].content = _TOOL_INTERRUPTED_PLACEHOLDER
       /\ HasToolCalls(san_result[i - 1])
       /\ ~isToolMessage(san_result[i + 1])
       /\ san_messages = SubSeq(san_result, 1, i - 1) \o SubSeq(san_result, i + 1, Len(san_result))

\* C21: the messages of a thread are append-only: after any step of any
\* turn the previous sequence is a prefix of the new one, in the state of
\* the run and in the persisted state of the thread.
MessagesAppendOnly ==
  [][/\ \A r \in Reqs :
          (req[r].st = "running" /\ req'[r].st = "running")
             => IsPrefix(req[r].messages, req'[r].messages)
     /\ \A t \in Threads :
          IsPrefix(checkpoints[t].messages, checkpoints'[t].messages)]_vars

\* C26: in one execution of a tool node no call id is handed to a tool
\* twice, in run_tools every call that names a tool is handed to it exactly
\* once, and a call that fails still gets one tool_result and no second
\* dispatch.
DispatchedOnce ==
  [][\A r \in Reqs :
       ToolStepBy(r) =>
         LET calls == PendingCalls(req[r].messages)
             new == Appended(r)
         IN /\ \A k \in 1..Len(calls) :
                 /\ Count(invoked', calls[k].id) - Count(invoked, calls[k].id) <= 1
                 /\ (req[r].node = "tools" /\ calls[k].name \in KnownTools)
                      => /\ Count(invoked', calls[k].id) = Count(invoked, calls[k].id) + 1
                         /\ Cardinality({j \in 1..Len(new) :
                                           new[j].tool_call_id = calls[k].id}) = 1
            /\ Len(invoked') - Len(invoked) <= Len(calls)]_vars

\* run_tools answered a lookup that raised: one dispatch, one tool_result
\* that reports the failure
DispatchedOnceWitness ==
  \E r \in Reqs :
    /\ req[r].st = "running" /\ req[r].node = "agent" /\ Len(req[r].messages) >= 2
    /\ LET n == Len(req[r].messages)
       IN /\ HasToolCalls(req[r].messages[n - 1])
          /\ req[r].messages[n - 1].tool_calls[1].name = "lookup_policy"
          /\ req[r].messages[n] =
               ToolMessage(ToolFailure("lookup_policy", "field required").value,
                           req[r].messages[n - 1].tool_calls[1].id)
          /\ invoked = <<req[r].messages[n - 1].tool_calls[1].id>>

\* the tool_results the current chat turn of request r has appended
TurnToolCount(r) ==
  ToolCount(SubSeq(req[r].messages, req[r].loaded + 1, Len(req[r].messages)))

\* C27: the ceiling is per turn: tool_results of earlier turns do not
\* count, so a reasoning step of a chat turn that emits tool calls and has
\* appended fewer than MAX_TOOL_MESSAGES tool_results itself goes on to a
\* tool node.
CeilingPerTurn ==
  [][\A r \in Reqs :
       (AgentStepBy(r) /\ ~AgentStepFails(r) /\ req[r].kind = "chat") =>
         LET saved == checkpoints'[req[r].thread]
         IN (HasToolCalls(Last(saved.messages)) /\ TurnToolCount(r) < MAX_TOOL_MESSAGES)
              => saved.next \in ToolNodes]_vars

\* C23: when the caller cancels a turn while a node is in flight nothing
\* of that node is committed: the thread keeps its last checkpoint, and
\* the next run of the thread starts from that checkpoint.
CancelCommitsNothing ==
  [][/\ \A r \in Reqs :
          Cancel(r) => /\ checkpoints' = checkpoints
                       /\ nckpt' = nckpt
                       /\ req'[r].st = "idle"
     /\ \A r \in Reqs, t \in Threads :
          (req[r].st = "idle" /\ req'[r].st = "running" /\ req'[r].thread = t) =>
             /\ IsPrefix(checkpoints[t].messages, req'[r].messages)
             /\ req'[r].loaded = Len(checkpoints[t].messages)
             /\ req'[r].kind = "resume" =>
                  /\ req'[r].messages = checkpoints[t].messages
                  /\ req'[r].node = checkpoints[t].next]_vars

\* a chat turn was cancelled while its sub-workflow call was running: the
\* thread still waits before the tool node, and a resume has picked the
\* node up from that checkpoint
CancelCommitsNothingWitness ==
  \E r \in Reqs, t \in Threads :
    /\ reply = "cancelled" /\ delegated # <<>>
    /\ checkpoints[t].next \in {"tools", "delegate_to_airtable"}
    /\ ToolCount(checkpoints[t].messages) = 0
    /\ req[r].st = "running" /\ req[r].kind = "resume" /\ req[r].thread = t
    /\ req[r].node = checkpoints[t].next
    /\ req[r].messages = checkpoints[t].messages

\* what invoking the tool of that name directly gives the dispatcher
DirectResults(name) ==
  {_run_tool(name, o.args_ok, o.world).value : o \in CallOutcomes}

\* C29: the tool nodes never invoke search_airtable directly: in tools and
\* delegate_to_airtable every search_airtable call is run by the
\* sub-workflow, and in tools every other call is invoked directly, its
\* result being the observation.
SearchRunsInSubworkflow ==
  [][\A r \in Reqs :
       (ToolStepBy(r) /\ req[r].node \in {"tools", "delegate_to_airtable"}) =>
         LET calls == PendingCalls(req[r].messages)
             new == Appended(r)
         IN \A k \in 1..Len(calls) :
              IF calls[k].name = "search_airtable"
              THEN /\ Count(delegated', calls[k].id) = Count(delegated, calls[k].id) + 1
                   /\ \E j \in 1..Len(new) :
                        /\ new[j].tool_call_id = calls[k].id
                        /\ new[j].content \in
                             {_run_airtable_subgraph_sync(SubgraphResult(w)).value : w \in Worlds}
              ELSE /\ Count(delegated', calls[k].id) = Count(delegated, calls[k].id)
                   /\ req[r].node = "tools" =>
                        /\ k <= Len(new)
                        /\ new[k].content \in DirectResults(calls[k].name)]_vars

\* run_tools answered a search_airtable call: the sub-workflow ran for it
SearchRunsInSubworkflowWitness ==
  \E r \in Reqs :
    /\ req[r].st = "running" /\ req[r].node = "agent" /\ Len(req[r].messages) >= 3
    /\ LET n == Len(req[r].messages)
           batch == req[r].messages[n - 2]
       IN /\ HasToolCalls(batch) /\ Len(batch.tool_calls) = 2
          /\ batch.tool_calls[1].name = "search_airtable"
          /\ batch.tool_calls[2].name = "lookup_policy"
          /\ isToolMessage(req[r].messages[n])
          /\ req[r].messages[n].content \in DirectResults("lookup_policy")
          /\ delegated = <<batch.tool_calls[1].id>>
          /\ invoked = <<batch.tool_calls[1].id, batch.tool_calls[2].id>>

\* C30: threads are independent: a turn or resume on one thread loads
\* only that thread's checkpoint and its steps change neither the
\* checkpoint of another thread nor the run of another request, under any
\* interleaving.
ThreadsIndependent ==
  [][\A r \in Reqs :
       /\ (req[r].st = "idle" /\ req'[r].st = "running") =>
            LET t == req'[r].thread IN
            /\ IsPrefix(checkpoints[t].messages, req'[r].messages)
            /\ Len(req'[r].messages) <= Len(checkpoints[t].messages) + 1
            /\ \A u \in AllThreads \ {t} : checkpoints'[u] = checkpoints[u]
            /\ \A q \in Reqs \ {r} : req'[q] = req[q]
       /\ (req[r].st = "running" /\ req'[r] # req[r] /\ crashes' = crashes) =>
            /\ \A u \in AllThreads \ {req[r].thread} : checkpoints'[u] = checkpoints[u]
            /\ \A q \in Reqs \ {r} : req'[q] = req[q]
            /\ req'[r].st = "running" =>
                 /\ req'[r].thread = req[r].thread
                 /\ checkpoints'[req[r].thread].messages = req'[r].messages]_vars

\* two turns ran side by side on two threads; each thread holds the
\* tool_result of its own turn only
ThreadsIndependentWitness ==
  \E r1, r2 \in Reqs :
    /\ req[r1].st = "running" /\ req[r2].st = "running"
    /\ req[r1].thread = "t1" /\ req[r2].thread = "t2"
    /\ req[r1].node = "agent" /\ req[r2].node = "agent"
    /\ ToolCount(checkpoints["t1"].messages) = 1
    /\ ToolCount(checkpoints["t2"].messages) = 1
    /\ Last(checkpoints["t1"].messages).tool_call_id
         # Last(checkpoints["t2"].messages).tool_call_id

\* C28: a chat turn whose LLM and tool calls return ends at "end" or at
\* the gated pause, whatever the LLM answers at each reasoning step (the
\* LLM is free to ask for tools every time); and a reasoning step that
\* emits tool calls when the thread holds MAX_TOOL_MESSAGES tool_results
\* ends the turn normally, at "end", the assistant message being the last
\* message of the thread.
TurnTerminates ==
  /\ [](\A r \in Reqs : (req[r].st = "running" /\ req[r].node = "agent") =>
          next_id + LongestBatch <= call_cap)
  /\ [][\A r \in Reqs : AgentStepBy(r) =>
          LET saved == checkpoints'[req[r].thread]
          IN (HasToolCalls(Last(saved.messages))
                /\ ToolCount(saved.messages) >= MAX_TOOL_MESSAGES)
             => /\ saved.next = "end"
                /\ req'[r].st = "idle"
                /\ reply' = Completed("chat")]_vars
  /\ \A r \in Reqs :
       (req[r].st = "running") ~>
         (/\ req[r].st = "idle"
          /\ reply = Completed("chat")
          /\ Stops(checkpoints["t1"].next))

\* the turn looped through the tool node MaxTurnLoops times and was then
\* ended by the ceiling with tool calls pending
TurnTerminatesWitness ==
  /\ \A r \in Reqs : req[r].st = "idle"
  /\ reply = Completed("chat")
  /\ checkpoints["t1"].next = "end"
  /\ HasToolCalls(Last(checkpoints["t1"].messages))
  /\ ToolCount(checkpoints["t1"].messages) >= MAX_TOOL_MESSAGES
  /\ nsteps = 2 * MaxTurnLoops + 1

\* C24: the tool step that brings retries_used to the ceiling ends the
\* sub-workflow normally (no exception), and what the enclosing node gets
\* as the tool observation is the content of the sub-workflow's final
\* message, "No records found." standing in for an empty content.
CeilingReturnsLastContent ==
  /\ [][(sub_pc = "tools" /\ retries_used' = AIRTABLE_MAX_RETRIES) => sub_pc' = "end"]_vars
  /\ [][(sub_pc = "end" /\ sub_pc' = "returned") =>
          sub_out' = IF Text(Last(sub_messages).content) = <<>>
                     THEN <<"No records found.">>
                     ELSE Last(sub_messages).content]_vars

\* a run that used up its retries has returned its last error observation
CeilingReturnsLastContentWitness ==
  /\ sub_pc = "returned"
  /\ retries_used = AIRTABLE_MAX_RETRIES
  /\ isToolMessage(Last(sub_messages))
  /\ sub_out = Last(sub_messages).content
  /\ is_error(sub_out)

\* C25: every run of the sub-workflow starts with retries_used = 0 whatever
\* the runs before left, retries_used never decreases within a run and never
\* exceeds AIRTABLE_MAX_RETRIES, and the tool step is followed by the
\* reasoning step only if the last observation is an error and retries_used
\* is below the ceiling.
RetriesBounded ==
  /\ [](retries_used \in 0..AIRTABLE_MAX_RETRIES)
  /\ [][(sub_pc \in {"agent", "tools"}) => (retries_used' >= retries_used)]_vars
  /\ [][(sub_pc = "returned" /\ sub_pc' = "agent") =>
          /\ retries_used' = 0
          /\ Len(sub_messages') = 1]_vars
  /\ [][(sub_pc = "tools" /\ sub_pc' = "agent") =>
          /\ isToolMessage(Last(sub_messages'))
          /\ is_error(Last(sub_messages').content)
          /\ retries_used' < AIRTABLE_MAX_RETRIES]_vars

\* a second run, started after a run that ended at the ceiling on a tool
\* error, has counted its own first error
RetriesBoundedWitness ==
  /\ sub_out = <<"Error searching table: ", "timeout">>
  /\ sub_pc = "agent"
  /\ sub_tool_runs = 1
  /\ retries_used = 1

\* C22: the connection pool and the compiled graph are created once per
\* process, also when requests call get_graph before the first
\* initialization has finished: no second pool is opened and every caller
\* is given the same compiled graph.
InitializedOnce ==
  /\ Cardinality(pools_opened) <= 1
  /\ \A c, d \in Callers :
       (gg[c].pc = "done" /\ gg[d].pc = "done") => gg[c].graph = gg[d].graph

EmailOnlyAfterResume ==
  [][sent' # sent =>
       \E r \in Reqs :
         /\ req[r].st = "running" /\ req[r].node = "tools_email"
         /\ req[r].kind = "resume"
         /\ req'[r] # req[r] /\ nsteps' = nsteps + 1
         /\ Len(req[r].messages) = req[r].loaded
         /\ IsPrefix(sent, sent')
         /\ \A k \in (Len(sent) + 1)..Len(sent') :
              sent'[k] \in SendEmailCalls(Last(req[r].messages))]_vars

\* a resumed run has invoked send_email for the call its thread was paused on
EmailOnlyAfterResumeWitness ==
  /\ sent # <<>>
  /\ \E r \in Reqs :
       /\ req[r].st = "running" /\ req[r].kind = "resume" /\ req[r].node = "agent"
       /\ Len(req[r].messages) > req[r].loaded
       /\ isToolMessage(Last(req[r].messages))
       /\ Last(req[r].messages).tool_call_id = sent[Len(sent)]

\* the send_email calls of history h that a human message followed while
\* they were pending
Abandoned(h) ==
  UNION {SendEmailCalls(h[i]) :
           i \in {k \in 1..(Len(h) - 1) : HasToolCalls(h[k]) /\ h[k + 1].type = "human"}}

\* in history h the placeholder of call x stands in the tool run between
\* the assistant message that issued x and the next human message
PlaceholderBeforeHuman(h, x) ==
  \E i, j, k \in 1..Len(h) :
    /\ i < j /\ j < k
    /\ HasToolCalls(h[i]) /\ x \in SendEmailCalls(h[i])
    /\ h[j] = ToolMessage(_TOOL_INTERRUPTED_PLACEHOLDER, x)
    /\ h[k].type = "human"
    /\ \A m \in (i + 1)..(k - 1) : isToolMessage(h[m])

PlaceholdersIn(h) ==
  {k \in 1..Len(h) : isToolMessage(h[k]) /\ h[k].content = _TOOL_INTERRUPTED_PLACEHOLDER}

\* C34: a reasoning step changes the thread state only by appending the
\* one LLM response: the checkpoint it writes is the state it ran on plus
\* one assistant message, the tool logs are untouched, and the placeholder
\* tool_results the LLM was given are in no persisted history.
AgentAppendsResponseOnly ==
  /\ [](\A t \in DOMAIN checkpoints : PlaceholdersIn(checkpoints[t].messages) = {})
  /\ [][\A r \in Reqs :
          (AgentStepBy(r) /\ nckpt' = nckpt + 1) =>
            LET saved == checkpoints'[req[r].thread].messages
            IN /\ Len(saved) = Len(req[r].messages) + 1
               /\ IsPrefix(req[r].messages, saved)
               /\ Last(saved).type = "ai"
               /\ sent' = sent /\ invoked' = invoked /\ delegated' = delegated
               /\ \A u \in DOMAIN checkpoints \ {req[r].thread} :
                    checkpoints'[u] = checkpoints[u]]_vars

\* the LLM was given a placeholder for a call that the persisted history
\* keeps without tool_result
AgentAppendsResponseOnlyWitness ==
  /\ PlaceholdersIn(llm_input) # {}
  /\ \E k \in 1..Len(checkpoints["t1"].messages) :
       LET m == checkpoints["t1"].messages[k]
       IN /\ HasToolCalls(m)
          /\ \E x \in CallIds(m) : Answers(checkpoints["t1"].messages, x) = {}
          /\ k < Len(checkpoints["t1"].messages)
  /\ Last(checkpoints["t1"].messages).type = "ai"
  /\ Len(llm_input) > Len(checkpoints["t1"].messages) - 1

\* C35: a tool node runs only on a state with fewer than
\* MAX_TOOL_MESSAGES tool_results, so no state of a run and no checkpoint
\* of a thread ever holds more than MAX_TOOL_MESSAGES - 1 tool_results
\* plus the tool calls of the longest batch.
ToolResultsBounded ==
  /\ [](/\ \A t \in DOMAIN checkpoints :
             ToolCount(checkpoints[t].messages) <= MAX_TOOL_MESSAGES - 1 + LongestBatch
        /\ \A r \in Reqs :
             ToolCount(req[r].messages) <= MAX_TOOL_MESSAGES - 1 + LongestBatch)
  /\ [][\A r \in Reqs :
          ToolStepBy(r) => ToolCount(req[r].messages) < MAX_TOOL_MESSAGES]_vars

\* a batch of LongestBatch calls ran on a thread that held
\* MAX_TOOL_MESSAGES - 1 tool_results: the thread is past the ceiling
ToolResultsBoundedWitness ==
  /\ ToolCount(checkpoints["t1"].messages) = MAX_TOOL_MESSAGES - 1 + LongestBatch
  /\ LongestBatch > 1
  /\ isToolMessage(Last(checkpoints["t1"].messages))
  /\ checkpoints["t1"].next = "agent"

\* C36: in the sub-workflow, a first tool observation without error marker
\* ends the run right after that tool step (one reasoning call, one tool
\* execution, retries_used 0, the tool output as final message), and a
\* first reasoning step without tool call ends the run at once with the
\* LLM message and no tool execution.
SubEndsWithoutRetry ==
  /\ [][(sub_pc = "tools" /\ sub_tool_runs = 0 /\ sub_pc' # "tools"
           /\ ~is_error(Last(sub_messages').content)) =>
          /\ sub_pc' = "end"
          /\ sub_llm_calls' = 1 /\ sub_tool_runs' = 1
          /\ retries_used' = 0
          /\ isToolMessage(Last(sub_messages'))
          /\ Len(sub_messages') = 3]_vars
  /\ [][(sub_pc = "agent" /\ sub_pc' \notin {"agent", "raised"}
           /\ ~HasToolCalls(Last(sub_messages'))) =>
          /\ sub_pc' = "end"
          /\ sub_tool_runs' = sub_tool_runs
          /\ Last(sub_messages').type = "ai"
          /\ Len(sub_messages') = Len(sub_messages) + 1]_vars

\* the run ended after one reasoning call and one successful search
SubEndsWithoutRetryWitness ==
  /\ sub_pc = "end"
  /\ sub_llm_calls = 1 /\ sub_tool_runs = 1 /\ retries_used = 0
  /\ Last(sub_messages).content = <<"| Nom | Statut |">>

\* the last user or assistant message of a request body, as a thread message
LastChatMessage(body) ==
  LET ks == {k \in 1..Len(body) : body[k].role \in {"user", "assistant"}}
      k  == CHOOSE j \in ks : \A m \in ks : m <= j
  IN IF body[k].role = "user" THEN HumanMessage(body[k].content)
     ELSE AIMessage(body[k].content, <<>>)

\* this step starts a chat run for a request that carries a thread_id
ChatRunStarts(r) ==
  /\ req[r].st = "idle" /\ req'[r].st = "running" /\ req'[r].kind = "chat"
  /\ request'.kind = "chat" /\ request'.has_thread_id

\* C37: a chat request that carries a thread_id adds exactly one message to
\* the thread state before the reasoning node runs, the last user or
\* assistant message of its body, whatever else the body repeats: the
\* messages of the checkpoint stay as they are and none is appended again.
ChatAppendsLastMessage ==
  [][\A r \in Reqs :
       ChatRunStarts(r) =>
         LET t == req'[r].thread
         IN /\ checkpoints'[t].messages =
                 Append(checkpoints[t].messages, LastChatMessage(request'.body))
            /\ req'[r].messages = checkpoints'[t].messages
            /\ req'[r].node = "agent"
            /\ nsteps' = nsteps /\ llm_input' = llm_input]_vars

\* a request repeated the two messages of an ended thread: the thread
\* holds three messages
ChatAppendsLastMessageWitness ==
  /\ request.kind = "chat" /\ request.has_thread_id
  /\ Len(request.body) = MaxBodyLen
  /\ _to_langchain_messages(request.body) = EndedCheckpoint.messages
  /\ \E r \in Reqs : req[r].st = "running" /\ req[r].node = "agent" /\ req[r].kind = "chat"
  /\ nsteps = 0
  /\ checkpoints["t1"].messages =
       Append(EndedCheckpoint.messages, AIMessage(<<"Bonjour">>, <<>>))

\* this step handles a resume request that names no valid action or the
\* thread of another user
ResumeRefused ==
  /\ started' = started + 1
  /\ request'.kind = "resume"
  /\ \/ request'.action \notin {"approve", "reject"}
     \/ owner[request'.thread] \notin {"none", request'.user}

\* C38: a resume request whose action is neither approve nor reject is
\* answered 400, one for the thread of another user 403, before the graph
\* is invoked: no run starts, no node runs, and the thread state, the tool
\* logs and the threads table stay as they are.
ResumeRejectedEarly ==
  [][ResumeRefused =>
       /\ reply' = IF request'.action \notin {"approve", "reject"}
                   THEN "http_400" ELSE "http_403"
       /\ UNCHANGED <<checkpoints, req, owner, sent, invoked, delegated, llm_input,
                      nsteps, nckpt, next_id>>]_vars

\* another user's approve was refused on a paused thread: the call is
\* still pending and nothing was sent
ResumeRejectedEarlyWitness ==
  /\ request.kind = "resume" /\ request.action = "approve"
  /\ owner["t1"] \notin {"none", request.user}
  /\ reply = "http_403"
  /\ checkpoints["t1"] = PausedCheckpoint
  /\ sent = <<>> /\ nsteps = 0
  /\ \A r \in Reqs : req[r].st = "idle"

\* C5: in the sanitized history every tool call of every assistant message
\* has exactly one tool_result whose tool_call_id equals the call's id.
SanitizerCompleteness ==
  san_pc \in {"once", "twice"} =>
    \A i \in 1..Len(san_result) :
      HasToolCalls(san_result[i]) =>
        \A k \in 1..Len(san_result[i].tool_calls) :
          Cardinality(Answers(san_result, san_result[i].tool_calls[k].id)) = 1

\* C6: the sanitizer is idempotent: sanitizing a sanitized history returns
\* it unchanged, whatever order the placeholders were appended in.
SanitizerIdempotent ==
  san_pc = "twice" => san_again = san_result

\* a history that needed two placeholders was sanitized twice
SanitizerIdempotentWitness ==
  san_pc = "twice" /\ Len(san_result) = Len(san_messages) + 2
====
